---- MODULE Spec2Model ----
(***************************************************************************)
(* State-machine model of the Sysco product scraper:                       *)
(*   - utils/helpers.js      retry, shouldRetryError                       *)
(*   - database/sysco-models.js  upsertProduct, batchUpsertProducts        *)
(*   - scrapers/sysco-paginated.js  runScraper and the walkers under it    *)
(* Three specifications share the definitions: SpecRetry drives retry() on *)
(* its own, SpecStore drives the persistence gateway, Spec drives a whole  *)
(* run of runScraper.                                                      *)
(***************************************************************************)
EXTENDS Integers, Sequences, FiniteSets, TLC

(***************************************************************************)
(* Bounds of the model.                                                    *)
(***************************************************************************)
\* largest maxRetries option handed to retry() in SpecRetry
MaxRetriesArg == 3
\* direct calls of upsertProduct in SpecStore
MaxUpsertCalls == 3
\* the longest batch handed to batchUpsertProducts in SpecBatch
MaxBatchLen == 3
\* the last second the clock reaches
MaxClock == 2
\* configuration of a run: syscoConfig.scraping.categories has this many
\* entries, and these are its maxPagesPerCategory, maxProductsPerCategory
\* and retry.maxRetries
NumCategories == 2
maxPagesPerCategory == 3
maxProductsPerCategory == 3
cfgMaxRetries == 1
\* product links a listing page shows
LinksPerPage == 2
\* failures the environment injects into one run
MaxFaults == 2
\* selectors of a detail page that find no element or a blank one
MaxDeviant == 2
MaxPageButtons == 3
\* buttons in the document of the location modal
MaxModalButtons == 2
\* authenticateAsGuest: maxRetries of the home navigation
authMaxRetries == 3

(***************************************************************************)
(* Strings are sequences of tokens, so that String.prototype.includes is a *)
(* search and not an equality.                                             *)
(***************************************************************************)
Includes(str, token) == \E k \in 1..Len(str) : str[k] = token

\* helpers.js: the retryableErrors list of shouldRetryError
retryableErrors ==
    <<"TimeoutError", "ProtocolError", "NetworkError", "ECONNRESET",
      "ENOTFOUND", "ECONNREFUSED", "Failed to extract details">>

\* helpers.js shouldRetryError(error): some listed type occurs in the name
\* or in the message
shouldRetryError(error) ==
    \E t \in 1..Len(retryableErrors) :
        \/ Includes(error.name, retryableErrors[t])
        \/ Includes(error.msg, retryableErrors[t])

\* An error object: name, message, and id = the invocation that threw it
\* (two errors of different invocations are different objects).
MkError(name, msg, id) == [name |-> name, msg |-> msg, id |-> id]
NoError == MkError(<<>>, <<>>, 0)

\* Errors the driver and the page produce.
NavTimeout == [name |-> <<"TimeoutError">>,
               msg |-> <<"Navigation timeout of ", "30000", " ms exceeded">>]
ExtractFailed == [name |-> <<"Error">>,
                  msg |-> <<"Failed to extract details", " from: ", "url">>]
TargetClosed == [name |-> <<"Error">>,
                 msg |-> <<"Navigation failed because browser has disconnected">>]

\* 2^n, as Math.pow(2, n) for n >= 0
RECURSIVE Pow2(_)
Pow2(n) == IF n <= 0 THEN 1 ELSE 2 * Pow2(n - 1)

VARIABLES
    \* ---- retry(operation, options): helpers.js
    rpc,            \* "idle" | "loop" | "returned" | "threw"
    ropts,          \* [maxRetries, baseDelay, exponentialBackoff, retryCondition]
    attempt,        \* the for-loop variable
    lastError,      \* let lastError
    calls,          \* how many times operation() was invoked
    sleeps,         \* the delays awaited, in order
    opLog,          \* how each invocation of operation() ended, in order
    rresult         \* what retry returned (rpc = "returned") or threw ("threw")

retryVars == <<rpc, ropts, attempt, lastError, calls, sleeps, opLog, rresult>>

VARIABLES
    \* ---- the store: database/sysco-models.js
    db,             \* let db: "null" or "open"
    table,          \* the rows of sysco_products
    now,            \* the clock CURRENT_TIMESTAMP reads, in whole seconds
    upLog,          \* the direct calls of upsertProduct made so far
    \* ---- batchUpsertProducts(productsArray)
    bpc,            \* "idle" | "loop" | "returned" | "threw"
    productsArray,  \* the argument: its items, by index below its length
    isArray,        \* Array.isArray(productsArray)
    bi,             \* the for-loop variable i (0-based)
    saved,          \* let saved
    errors,         \* let errors
    failed          \* the positions (1-based) whose upsert was rejected

storeVars == <<db, table, now, upLog>>
batchVars == <<bpc, productsArray, isArray, bi, saved, errors, failed>>

VARIABLES
    \* ---- runScraper and the walkers: scrapers/sysco-paginated.js
    pc,             \* where the single flow of control stands
    browser,        \* let browser: "null", "open" or "closed"
    loc,            \* the page the browser shows, as page.url() tells it
    caught,         \* the error the try block of runScraper threw, if any
    thrown,         \* the error runScraper rejected with, if any
    launches,       \* calls of puppeteer.launch that resolved
    closes,         \* calls of browser.close
    guestClicked,   \* authenticateAsGuest returned normally
    zipEntered,     \* handleZipCodeModal returned normally
    faults,         \* failures the environment has injected so far
    \* ---- scrapeAllCategories
    catIdx,         \* position of the for-of loop in categories (1-based)
    allProducts,    \* const allProducts
    exports,        \* the calls of exportToCsv: [category, ok]
    catLog,         \* per category: how its walk ended
    listAtStart,    \* the category list was showing when traversal began
    \* ---- scrapeCategory
    currentPage,    \* let currentPage
    categoryPageUrl,        \* let categoryPageUrl
    allCategoryProducts,    \* const allCategoryProducts
    pagesExtracted, \* calls of scrapeProductsFromPage in this category
    advances,       \* calls of navigateToNextPage in this category
    refusals,       \* of which returned false
    startFaults,    \* value of faults when this category's walk began
    loopExit,       \* how the page loop ended: "pages", "refused", "guard"
    refreshes,      \* last-resort reloads of the category list (line 542)
    pageResults,    \* what each call of scrapeProductsFromPage returned
    urlLog,         \* the values categoryPageUrl was given (lines 431, 455)
    navLog,         \* where each navigateToNextPage went first (line 290)
    \* ---- scrapeProductsFromPage
    productLinks,   \* const productLinks
    li,             \* the for-loop variable i (0-based)
    categoryProducts,       \* const categoryProducts
    linkLog,        \* per link the loop has handled: did it yield a record
    saveLog,        \* the calls of batchUpsertProducts: [cat, page, records]
    \* ---- extractProductDetails
    document,       \* the document of the detail page: selector -> element
    \* ---- sysco-config.js
    categorySelectors,      \* the categories that have a selector configured
    zipCode,        \* scraping.location.zipCode
    \* ---- navigateToNextPage
    pagination,     \* the pagination controls of the listing shown
    nextPageClicked,        \* what the page.evaluate of lines 297-344 returned
    modalButtons,   \* the texts of the document's buttons, in DOM order, when
                    \* the location step looked for the modal's submit button
    modalClicks     \* the positions of the buttons that step clicked

sessionVars == <<pc, browser, loc, caught, thrown, launches, closes,
                 guestClicked, zipEntered, faults>>
traversalVars == <<catIdx, allProducts, exports, catLog, listAtStart>>
categoryVars == <<currentPage, categoryPageUrl, allCategoryProducts,
                  pagesExtracted, advances, refusals, startFaults, loopExit,
                  refreshes, pageResults, urlLog, navLog>>
siteVars == <<document, categorySelectors, zipCode, pagination,
              nextPageClicked, modalButtons, modalClicks>>
pageVars == <<productLinks, li, categoryProducts, linkLog, saveLog,
              siteVars>>
runVars == <<sessionVars, traversalVars, categoryVars, pageVars>>

vars == <<retryVars, storeVars, batchVars, runVars>>

NoResult == [ok |-> FALSE, val |-> "", by |-> 0, err |-> NoError]

\* retryCondition(error): the default () => true, shouldRetryError, or a
\* caller's predicate that refuses everything
RetryCondition(cond, error) ==
    CASE cond = "default" -> TRUE
      [] cond = "shouldRetryError" -> shouldRetryError(error)
      [] OTHER -> FALSE

\* helpers.js line 52: the delay before the next attempt. The variant takes
\* the exponent from the attempt that comes next.
RetryDelayOfNextAttempt(opts, att) ==
    IF opts.exponentialBackoff
    THEN opts.baseDelay * Pow2(att)
    ELSE opts.baseDelay
RetryDelay(opts, att) ==
    IF opts.exponentialBackoff
    THEN opts.baseDelay * Pow2(att - 1)
    ELSE opts.baseDelay

\* helpers.js line 47: leave the loop after this failure? The variant
\* forgets to consult the retry condition.
RetryBreaksIgnoringCondition(opts, att, error) == att >= opts.maxRetries + 1
RetryBreaks(opts, att, error) ==
    \/ ~RetryCondition(opts.retryCondition, error)
    \/ att >= opts.maxRetries + 1

\* helpers.js line 32: the for loop's condition
RetryLoopGuard(opts, att) == att <= opts.maxRetries + 1

\* retry() has returned or thrown and its caller took the outcome: the
\* locals of the call are gone
RetryLeave ==
    /\ rpc' = "idle"
    /\ ropts' = [maxRetries |-> 0, baseDelay |-> 0,
                 exponentialBackoff |-> FALSE, retryCondition |-> "default"]
    /\ attempt' = 1
    /\ lastError' = NoError
    /\ calls' = 0
    /\ sleeps' = <<>>
    /\ opLog' = <<>>
    /\ rresult' = NoResult

\* retry() is entered: the options are destructured, nothing has run yet.
RetryEnter(opts) ==
    /\ rpc' = "loop"
    /\ ropts' = opts
    /\ attempt' = 1
    /\ lastError' = NoError
    /\ calls' = 0
    /\ sleeps' = <<>>
    /\ opLog' = <<>>
    /\ rresult' = NoResult

\* helpers.js lines 34-40: operation() resolved, retry returns its value.
\* The variant keeps the value and goes on looping (a missing return).
RetrySucceededNoReturn(out) ==
    /\ rresult' = [ok |-> TRUE, val |-> out.val, by |-> calls + 1,
                   err |-> NoError]
    /\ attempt' = attempt + 1
    /\ UNCHANGED <<rpc, lastError, sleeps>>
RetrySucceeded(out) ==
    /\ rpc' = "returned"
    /\ rresult' = [ok |-> TRUE, val |-> out.val, by |-> calls + 1,
                   err |-> NoError]
    /\ UNCHANGED <<attempt, lastError, sleeps>>

\* helpers.js lines 41-58: operation() rejected; break, or sleep and go on.
\* The variant keeps the first error it saw instead of the latest.
RetryFailedKeepsFirstError(out) ==
    LET error == MkError(out.err.name, out.err.msg, calls + 1)
        kept == IF lastError = NoError THEN error ELSE lastError IN
    /\ lastError' = kept
    /\ IF RetryBreaks(ropts, attempt, error)
       THEN /\ rpc' = "threw"
            /\ rresult' = [ok |-> FALSE, val |-> "", by |-> 0, err |-> kept]
            /\ UNCHANGED <<attempt, sleeps>>
       ELSE /\ sleeps' = Append(sleeps, RetryDelay(ropts, attempt))
            /\ attempt' = attempt + 1
            /\ UNCHANGED <<rpc, rresult>>
\* A second variant computes the delay and sleeps before it checks whether
\* to break, so that a sleep follows the last attempt too.
RetryFailedSleepsBeforeBreak(out) ==
    LET error == MkError(out.err.name, out.err.msg, calls + 1) IN
    /\ lastError' = error
    /\ sleeps' = Append(sleeps, RetryDelay(ropts, attempt))
    /\ IF RetryBreaks(ropts, attempt, error)
       THEN /\ rpc' = "threw"
            /\ rresult' = [ok |-> FALSE, val |-> "", by |-> 0, err |-> error]
            /\ UNCHANGED attempt
       ELSE /\ attempt' = attempt + 1
            /\ UNCHANGED <<rpc, rresult>>
RetryFailed(out) ==
    LET error == MkError(out.err.name, out.err.msg, calls + 1) IN
    /\ lastError' = error
    /\ IF RetryBreaks(ropts, attempt, error)
       THEN /\ rpc' = "threw"
            /\ rresult' = [ok |-> FALSE, val |-> "", by |-> 0, err |-> error]
            /\ UNCHANGED <<attempt, sleeps>>
       ELSE /\ sleeps' = Append(sleeps, RetryDelay(ropts, attempt))
            /\ attempt' = attempt + 1
            /\ UNCHANGED <<rpc, rresult>>

\* One turn of the for loop of retry(): operation() is invoked and ends as
\* `out` says ([ok |-> TRUE, val] or [ok |-> FALSE, err]); when the loop
\* condition fails instead, lines 61-62 throw lastError.
RetryIteration(out) ==
    /\ rpc = "loop"
    /\ IF RetryLoopGuard(ropts, attempt)
       THEN /\ calls' = calls + 1
            /\ opLog' = Append(opLog, out)
            /\ IF out.ok THEN RetrySucceeded(out) ELSE RetryFailed(out)
       ELSE /\ rpc' = "threw"
            /\ rresult' = [ok |-> FALSE, val |-> "", by |-> 0,
                           err |-> lastError]
            /\ UNCHANGED <<attempt, lastError, calls, sleeps, opLog>>
    /\ UNCHANGED ropts

(***************************************************************************)
(* The store: table sysco_products and upsertProduct.                      *)
(* A product record is [sku, location_zip, product_name, val]: val stands  *)
(* for the columns the DO UPDATE clause copies from excluded.* besides     *)
(* product_name, which is kept apart because the column is NOT NULL.       *)
(* A row adds scraped_date and updated_date.                               *)
(***************************************************************************)
Null == "NULL"
Undefined == "undefined"
DefaultZip == "97209"

Skus == {"A", "B"}
Zips == {DefaultZip, "10001"}
ProductNames == {"Product"}
Vals == {"v1", "v2"}

\* what a caller may hand to upsertProduct: every key with every value,
\* a record without location_zip, and one without product_name
ProductData ==
    [sku : Skus, location_zip : Zips, product_name : ProductNames, val : Vals]
    \cup {[sku |-> "A", location_zip |-> Undefined,
            product_name |-> "Product", val |-> "v1"],
           [sku |-> "A", location_zip |-> DefaultZip,
            product_name |-> Null, val |-> "v2"]}

\* sysco-models.js line 197: location_zip = '97209' when the field is absent
BoundZip(productData) ==
    IF productData.location_zip = Undefined
    THEN DefaultZip
    ELSE productData.location_zip

\* the rows a (sku, location_zip) pair selects
RowsOfKey(t, sku, zip) == {r \in t : r.sku = sku /\ r.location_zip = zip}
\* the rows a sku selects
RowsOfSku(t, sku) == {r \in t : r.sku = sku}

\* line 86: product_name TEXT NOT NULL
ViolatesNotNull(productData) == productData.product_name = Null

\* lines 121 and 208: the statement's conflict target, UNIQUE(sku, location_zip)
HitsConflictTarget(t, productData) ==
    RowsOfKey(t, productData.sku, BoundZip(productData)) # {}

\* line 85: sku TEXT UNIQUE, the column constraint the statement does not name
ViolatesSkuUnique(t, productData) ==
    /\ ~HitsConflictTarget(t, productData)
    /\ RowsOfSku(t, productData.sku) # {}

\* lines 202-207: the INSERT branch; scraped_date and updated_date take
\* their column default CURRENT_TIMESTAMP
InsertRow(t, productData, at) ==
    t \cup {[sku |-> productData.sku,
             location_zip |-> BoundZip(productData),
             product_name |-> productData.product_name,
             val |-> productData.val,
             scraped_date |-> at,
             updated_date |-> at]}

\* lines 208-232: the DO UPDATE branch; scraped_date is not assigned
UpdateRow(t, productData, at) ==
    {IF r.sku = productData.sku /\ r.location_zip = BoundZip(productData)
     THEN [r EXCEPT !.product_name = productData.product_name,
                    !.val = productData.val,
                    !.updated_date = at]
     ELSE r : r \in t}

\* lines 235-257: database.run(upsertSQL, ...) at second `at`; `fault` is
\* the database reporting an error of its own (locked, I/O, no such table).
\* The result is [ok, table]: the promise resolved or rejected, and the rows.
UpsertProduct(t, productData, at, fault) ==
    IF fault \/ ViolatesNotNull(productData) \/ ViolatesSkuUnique(t, productData)
    THEN [ok |-> FALSE, table |-> t]
    ELSE IF HitsConflictTarget(t, productData)
         THEN [ok |-> TRUE, table |-> UpdateRow(t, productData, at)]
         ELSE [ok |-> TRUE, table |-> InsertRow(t, productData, at)]

\* the seconds the next statement may run at: this one, or a later one
Seconds == {t \in now..(now + 1) : t <= MaxClock}

\* A caller's own upsertProduct(productData): connect(), then the statement.
UpsertCall ==
    /\ bpc \in {"idle", "returned"}
    /\ Len(upLog) < MaxUpsertCalls
    /\ \E productData \in ProductData, at \in Seconds :
         LET res == UpsertProduct(table, productData, at, FALSE) IN
         /\ db' = "open"
         /\ table' = res.table
         /\ now' = at
         /\ upLog' = Append(upLog,
                [productData |-> productData, ok |-> res.ok, at |-> at,
                 rows |-> RowsOfKey(res.table, productData.sku,
                                    BoundZip(productData))])
    /\ UNCHANGED <<batchVars, retryVars, runVars>>

(***************************************************************************)
(* batchUpsertProducts(productsArray), sysco-models.js lines 265-293.      *)
(***************************************************************************)
RECURSIVE SeqsUpTo(_, _)
SeqsUpTo(S, n) ==
    IF n = 0 THEN {<<>>}
    ELSE LET shorter == SeqsUpTo(S, n - 1) IN
         shorter \cup {Append(q, x) : q \in {z \in shorter : Len(z) = n - 1},
                                      x \in S}

\* line 266: the guard that returns {saved: 0, errors: 0} at once. The
\* variant looks at the length only, so that a string or another array-like
\* value is walked as a batch.
BatchGuardLengthOnly(isArr, arr) == Len(arr) = 0
BatchGuard(isArr, arr) == ~isArr \/ Len(arr) = 0

\* lines 266-274: the guard and the counters, for a caller that passes an
\* array, as scrapeProductsFromPage does (part_000 line 274)
BatchEnter(arr) ==
    /\ productsArray' = arr
    /\ isArray' = TRUE
    /\ bi' = 0
    /\ saved' = 0
    /\ errors' = 0
    /\ failed' = {}
    /\ bpc' = IF BatchGuard(TRUE, arr) THEN "returned" ELSE "loop"

\* lines 285-288: the catch of one record's upsert. The variant lets the
\* rejection leave the loop, as a batch without the inner try would.
BatchCatchAborting ==
    /\ errors' = errors + 1
    /\ bpc' = "threw"
    /\ bi' = bi
BatchCatch ==
    /\ errors' = errors + 1
    /\ bpc' = IF bi + 1 < Len(productsArray) THEN "loop" ELSE "returned"
    /\ bi' = bi + 1

\* lines 276-289: one turn of the for loop, record productsArray[i]
BatchIteration(at, fault) ==
    LET res == UpsertProduct(table, productsArray[bi + 1], at, fault) IN
    /\ bpc = "loop"
    /\ bi < Len(productsArray)
    /\ db' = "open"
    /\ table' = res.table
    /\ now' = at
    /\ IF res.ok
       THEN /\ saved' = saved + 1
            /\ bi' = bi + 1
            /\ bpc' = IF bi + 1 < Len(productsArray) THEN "loop" ELSE "returned"
            /\ UNCHANGED <<errors, failed>>
       ELSE /\ failed' = failed \cup {bi + 1}
            /\ BatchCatch
            /\ UNCHANGED saved
    /\ UNCHANGED <<productsArray, isArray, upLog>>

BatchRecords == {p \in ProductData : p.val = "v1" \/ p.product_name = Null}

BatchStep ==
    /\ \E at \in Seconds, fault \in BOOLEAN : BatchIteration(at, fault)
    /\ UNCHANGED <<retryVars, runVars>>

(***************************************************************************)
(* A run of runScraper, scrapers/sysco-paginated.js.                       *)
(* The browser shows one page at a time; page.url() is modelled by the     *)
(* record [kind, cat, page].                                               *)
(***************************************************************************)
Page(kind, c, p) == [kind |-> kind, cat |-> c, page |-> p]
Blank == Page("blank", 0, 0)
Home == Page("home", 0, 0)
Landing == Page("landing", 0, 0)        \* the app behind the location modal
Discover == Page("discover", 0, 0)      \* urls.discover, the category list
DiscoverBare == Page("discover_bare", 0, 0)   \* the same, no marker visible
Listing(c, p) == Page("listing", c, p)
Detail(c, p) == Page("detail", c, p)

\* errors of the run's own steps
RunError(name, msg) == MkError(<<name>>, <<msg>>, 0)
LaunchFailed == RunError("Error", "Failed to launch the browser process")
NewPageFailed == RunError("Error", "Protocol error (Target.createTarget)")
GuestMissing == RunError("Error", "Could not find Continue as Guest button")
ZipTimeout == RunError("TimeoutError", "Waiting for selector failed")
ZipMissing == RunError("Error", "Could not find ZIP code input with data-id selector")
CloseFailed == RunError("Error", "Protocol error: Connection closed")

\* the environment may still inject a failure
MayFail == faults < MaxFaults

\* the record extractProductDetails builds from the detail page of link j
\* of page p of category c
RecordOf(c, p, j) ==
    [sku |-> <<c, p, j>>, location_zip |-> DefaultZip,
     product_name |-> "Product", val |-> "v1"]

\* lines 227-233: the distinct product links of the page shown
LinksOn(where) ==
    IF where.kind = "listing"
    THEN [j \in 1..LinksPerPage |-> [cat |-> where.cat, page |-> where.page,
                                    idx |-> j]]
    ELSE <<>>

\* lines 15-28: initializeBrowser
InitializeBrowser ==
    /\ pc = "start"
    /\ \/ /\ browser' = "open"
          /\ launches' = launches + 1
          /\ loc' = Blank
          /\ pc' = "authenticate"
          /\ UNCHANGED <<caught, faults>>
       \/ /\ MayFail          \* puppeteer.launch rejects: browser stays null
          /\ faults' = faults + 1
          /\ caught' = LaunchFailed
          /\ pc' = "finally"
          /\ UNCHANGED <<browser, launches, loc>>
       \/ /\ MayFail          \* browser.newPage or a page setter rejects
          /\ faults' = faults + 1
          /\ browser' = "open"
          /\ launches' = launches + 1
          /\ caught' = NewPageFailed
          /\ pc' = "finally"
          /\ UNCHANGED loc
    /\ UNCHANGED <<thrown, closes, guestClicked, zipEntered>>
    /\ UNCHANGED <<traversalVars, categoryVars, pageVars, retryVars,
                   storeVars, batchVars>>

\* lines 33-41: authenticateAsGuest wraps the home navigation in retry
AuthenticateEnter ==
    /\ pc = "authenticate"
    /\ RetryEnter([maxRetries |-> authMaxRetries, baseDelay |-> 1000,
                   exponentialBackoff |-> TRUE,
                   retryCondition |-> "shouldRetryError"])
    /\ pc' = "auth_goto"
    /\ UNCHANGED <<browser, loc, caught, thrown, launches, closes,
                   guestClicked, zipEntered, faults>>
    /\ UNCHANGED <<traversalVars, categoryVars, pageVars, storeVars, batchVars>>

\* lines 34-37: one page.goto(urls.home) under retry
AuthGoto ==
    /\ pc = "auth_goto"
    /\ \/ /\ RetryIteration([ok |-> TRUE, val |-> "home", err |-> NoError])
          /\ loc' = Home
          /\ UNCHANGED faults
       \/ /\ MayFail
          /\ \E e \in {NavTimeout, TargetClosed} :
               RetryIteration([ok |-> FALSE, val |-> "",
                               err |-> MkError(e.name, e.msg, 0)])
          /\ faults' = faults + 1
          /\ UNCHANGED loc
    /\ UNCHANGED <<pc, browser, caught, thrown, launches, closes,
                   guestClicked, zipEntered>>
    /\ UNCHANGED <<traversalVars, categoryVars, pageVars, storeVars, batchVars>>

\* lines 70-72: the guest button was not found: throw. The variant goes on
\* to the next step without the throw.
GuestButtonNotFoundIgnored ==
    /\ pc' = "zip"
    /\ UNCHANGED <<caught, loc, guestClicked>>
GuestButtonNotFound ==
    /\ caught' = GuestMissing
    /\ pc' = "finally"
    /\ UNCHANGED <<loc, guestClicked>>

\* lines 43-77: after retry: the guest button is clicked, or the step throws
AuthenticateAsGuest ==
    /\ pc = "auth_goto"
    /\ rpc \in {"returned", "threw"}
    /\ IF rpc = "threw"
       THEN /\ caught' = rresult.err
            /\ pc' = "finally"
            /\ UNCHANGED <<loc, guestClicked, faults>>
       ELSE \/ /\ guestClicked' = TRUE
               /\ loc' = Landing
               /\ pc' = "zip"
               /\ UNCHANGED <<caught, faults>>
            \/ /\ MayFail     \* document.querySelector(guestButton) is null
               /\ faults' = faults + 1
               /\ GuestButtonNotFound
    /\ rpc' = "idle"
    /\ UNCHANGED <<ropts, attempt, lastError, calls, sleeps, opLog, rresult>>
    /\ UNCHANGED <<browser, thrown, launches, closes, zipEntered>>
    /\ UNCHANGED <<traversalVars, categoryVars, pageVars, storeVars, batchVars>>

\* lines 119-122: the catch of handleZipCodeModal logs and rethrows. The
\* first variant logs and returns, so that the caller goes on; the second
\* waits for the modal again.
ZipModalFailsSwallowed(e) ==
    /\ pc' = "located"
    /\ UNCHANGED <<caught, zipEntered, loc>>
ZipModalFailsRetried(e) ==
    /\ pc' = "zip"
    /\ UNCHANGED <<caught, zipEntered, loc>>
ZipModalFails(e) ==
    /\ caught' = e
    /\ pc' = "finally"
    /\ UNCHANGED <<zipEntered, loc>>

\* lines 101-104: text.toLowerCase() of a button's trimmed text; a text is
\* a sequence of tokens, lowered token by token
LowerToken(token) ==
    CASE token = "Start Shopping" -> "start shopping"
      [] token = "START SHOPPING" -> "start shopping"
      [] token = "Continue" -> "continue"
      [] token = "Submit" -> "submit"
      [] token = "SUBMIT" -> "submit"
      [] token = "Cancel" -> "cancel"
      [] token = "Guest" -> "guest"
      [] OTHER -> token
ToLowerCase(text) == [k \in 1..Len(text) |-> LowerToken(text[k])]

\* lines 102-104: the phrases a submit button's text may include
SubmitPhrases == <<"start shopping", "continue", "submit">>

\* lines 102-104: does the button's text name a submit button?
IsSubmitText(text) ==
    \E p \in 1..Len(SubmitPhrases) :
        Includes(ToLowerCase(text), SubmitPhrases[p])

\* the texts a button of the modal's document may carry
ButtonTexts ==
    {<<"Start Shopping">>, <<"Continue", " as ", "Guest">>, <<"SUBMIT">>,
     <<"Cancel">>, <<>>}

\* the documents the location step may meet: up to MaxModalButtons buttons
ModalDoms == SeqsUpTo(ButtonTexts, MaxModalButtons)

\* lines 98-110: the buttons are walked in DOM order; the first whose text
\* names a submit button is clicked and the walk returns its text; false
\* when none does. The result is the positions clicked. The variant walks on
\* after a click, as a forEach without the return would.
ModalSubmitClickedEvery(buttons) ==
    SelectSeq([k \in 1..Len(buttons) |-> k],
              LAMBDA k : IsSubmitText(buttons[k]))
ModalSubmitClicked(buttons) ==
    IF \E k \in 1..Len(buttons) : IsSubmitText(buttons[k])
    THEN <<CHOOSE k \in 1..Len(buttons) :
              /\ IsSubmitText(buttons[k])
              /\ \A j \in 1..(k - 1) : ~IsSubmitText(buttons[j])>>
    ELSE <<>>

\* lines 79-125: handleZipCodeModal
HandleZipCodeModal ==
    /\ pc = "zip"
    /\ \/ \E buttons \in ModalDoms :      \* the ZIP is typed (line 92)
            LET clicked == ModalSubmitClicked(buttons) IN
            /\ zipEntered' = TRUE
            /\ modalButtons' = buttons
            /\ modalClicks' = clicked
               \* a clicked submit button closes the modal and the category
               \* list shows; with none clicked (line 112) the modal stays
            /\ loc' = IF clicked # <<>> THEN Discover ELSE Landing
            /\ pc' = "located"
            /\ UNCHANGED <<caught, faults>>
       \/ /\ MayFail          \* waitForSelector times out, or page.$ is null
          /\ faults' = faults + 1
          /\ \E e \in {ZipTimeout, ZipMissing} : ZipModalFails(e)
          /\ UNCHANGED <<modalButtons, modalClicks>>
    /\ UNCHANGED <<browser, thrown, launches, closes, guestClicked>>
    /\ UNCHANGED <<productLinks, li, categoryProducts, linkLog, saveLog>>
    /\ UNCHANGED <<document, categorySelectors, zipCode, pagination,
                   nextPageClicked>>
    /\ UNCHANGED <<traversalVars, categoryVars, retryVars, storeVars,
                   batchVars>>

\* lines 555-558: scrapeAllCategories is entered
ScrapeAllEnter ==
    /\ pc = "located"
    /\ allProducts' = <<>>
    /\ catIdx' = 1
    /\ listAtStart' = (loc = Discover)
    /\ pc' = "category"
    /\ modalButtons' = <<>>     \* the modal's document is gone
    /\ modalClicks' = <<>>
    /\ UNCHANGED <<exports, catLog>>
    /\ UNCHANGED <<browser, loc, caught, thrown, launches, closes,
                   guestClicked, zipEntered, faults>>
    /\ UNCHANGED <<productLinks, li, categoryProducts, linkLog, saveLog>>
    /\ UNCHANGED <<document, categorySelectors, zipCode, pagination,
                   nextPageClicked>>
    /\ UNCHANGED <<categoryVars, retryVars, storeVars, batchVars>>

\* the for-of loop of scrapeAllCategories moves on from category catIdx,
\* whose walk ended with `status`, `n` records and `exported`, after `own`
\* failures injected during the walk
NextCategory(status, n, exported, own) ==
    /\ catLog' = [catLog EXCEPT ![catIdx] =
                    [status |-> status, n |-> n, exported |-> exported,
                     faults |-> own]]
    /\ catIdx' = catIdx + 1
    /\ pc' = IF catIdx + 1 <= NumCategories THEN "category" ELSE "summary"

\* lines 374-375: does the configuration map the category to a selector?
\* The variant takes every name for a configured one.
SelectorKnownAlways(c) == TRUE
SelectorKnown(c) == c \in categorySelectors

\* lines 369-431: scrapeCategory up to the page loop. The category control
\* is on the category-list page only.
ScrapeCategoryEnter ==
    /\ pc = "category"
    /\ startFaults' = faults
    /\ currentPage' = 1
    /\ allCategoryProducts' = <<>>
    /\ pagesExtracted' = 0
    /\ advances' = 0
    /\ refusals' = 0
    /\ loopExit' = "none"
    /\ refreshes' = 0
    /\ pageResults' = <<>>
    /\ navLog' = <<>>
    /\ IF ~SelectorKnown(catIdx)  \* lines 375-378: return [] at once
       THEN /\ pc' = "category_returned"
            /\ UNCHANGED <<loc, categoryPageUrl, faults>>
       ELSE \/ /\ loc = Discover         \* clicked, the listing loaded
                  /\ loc' = Listing(catIdx, 1)
                  /\ categoryPageUrl' = Listing(catIdx, 1)
                  /\ pc' = "page"
                  /\ UNCHANGED faults
               \/ /\ loc = Discover         \* clicked, navigation timed out
                  /\ MayFail
                  /\ faults' = faults + 1
                  /\ categoryPageUrl' = loc
                  /\ pc' = "page"
                  /\ UNCHANGED loc
               \/ /\ loc = Discover         \* the control is not there
                  /\ MayFail
                  /\ faults' = faults + 1
                  /\ pc' = "category_returned"
                  /\ UNCHANGED <<loc, categoryPageUrl>>
               \/ /\ loc = Discover         \* page.evaluate rejects, line 382
                  /\ MayFail
                  /\ faults' = faults + 1
                  /\ pc' = "category_threw"
                  /\ UNCHANGED <<loc, categoryPageUrl>>
               \/ /\ loc # Discover         \* line 410: return [], no click
                  /\ pc' = "category_returned"
                  /\ UNCHANGED <<loc, categoryPageUrl, faults>>
    /\ urlLog' = IF pc' = "page" THEN <<categoryPageUrl'>> ELSE <<>>
    /\ UNCHANGED <<browser, caught, thrown, launches, closes, guestClicked,
                   zipEntered>>
    /\ UNCHANGED <<traversalVars, pageVars, retryVars, storeVars, batchVars>>

\* line 434: the while condition of the page loop
PageLoopGuard ==
    /\ currentPage <= maxPagesPerCategory
    /\ Len(allCategoryProducts) < maxProductsPerCategory

\* lines 434-438 and 221-242: the page loop's condition, then
\* scrapeProductsFromPage collects the links of the page shown
ScrapeProductsFromPageEnter ==
    /\ pc = "page"
    /\ IF PageLoopGuard
       THEN /\ pagesExtracted' = pagesExtracted + 1
            /\ UNCHANGED <<loopExit, saveLog, siteVars>>
            /\ \/ /\ productLinks' = LinksOn(loc)
                  /\ li' = 0
                  /\ categoryProducts' = <<>>
                  /\ linkLog' = <<>>
                  /\ pc' = IF LinksOn(loc) = <<>> THEN "page_done" ELSE "link"
                  /\ UNCHANGED faults
               \/ /\ MayFail        \* the listing shows no product link
                  /\ LinksOn(loc) # <<>>
                  /\ faults' = faults + 1
                  /\ productLinks' = <<>>
                  /\ li' = 0
                  /\ categoryProducts' = <<>>
                  /\ linkLog' = <<>>
                  /\ pc' = "page_done"
               \/ /\ MayFail        \* page.evaluate rejects
                  /\ faults' = faults + 1
                  /\ pc' = "category_threw"
                  /\ UNCHANGED <<productLinks, li, categoryProducts, linkLog>>
       ELSE /\ pc' = "return"
            /\ loopExit' = "guard"
            /\ UNCHANGED <<pagesExtracted, faults, pageVars>>
    /\ UNCHANGED <<currentPage, categoryPageUrl, allCategoryProducts,
                   advances, refusals, startFaults, refreshes,
                   pageResults, urlLog, navLog>>
    /\ UNCHANGED <<browser, loc, caught, thrown, launches, closes,
                   guestClicked, zipEntered>>
    /\ UNCHANGED <<traversalVars, retryVars, storeVars, batchVars>>

\* line 245: the for condition of the link loop
LinkLoopGuard ==
    /\ li < Len(productLinks)
    /\ Len(categoryProducts) < maxProductsPerCategory

\* line 269: is the page's batch handed to batchUpsertProducts? The variant
\* hands it over whatever its length.
SaveNeededAlways == TRUE
SaveNeeded == Len(categoryProducts) > 0

\* lines 245-249 and 127-128, 214-218: the link loop's condition, then
\* extractProductDetails enters retry; lines 268-280 when the loop is over
ExtractProductDetailsEnter ==
    /\ pc = "link"
    /\ IF LinkLoopGuard
       THEN /\ RetryEnter([maxRetries |-> cfgMaxRetries, baseDelay |-> 2000,
                           exponentialBackoff |-> TRUE,
                           retryCondition |-> "shouldRetryError"])
            /\ pc' = "extract"
            /\ UNCHANGED <<batchVars, saveLog>>
       ELSE IF SaveNeeded
            THEN /\ BatchEnter(categoryProducts)
                 /\ saveLog' = Append(saveLog,
                                      [cat |-> catIdx, page |-> currentPage,
                                       records |-> categoryProducts])
                 /\ pc' = "save"
                 /\ UNCHANGED retryVars
            ELSE /\ pc' = "page_done"
                 /\ UNCHANGED <<batchVars, retryVars, saveLog>>
    /\ UNCHANGED <<browser, loc, caught, thrown, launches, closes,
                   guestClicked, zipEntered, faults>>
    /\ UNCHANGED <<productLinks, li, categoryProducts, linkLog, siteVars>>
    /\ UNCHANGED <<traversalVars, categoryVars, storeVars>>

\* line 249: the link the loop hands to extractProductDetails. The variant
\* walks the links from the last to the first.
CurrentLinkFromLast == productLinks[Len(productLinks) - li]
CurrentLink == productLinks[li + 1]

\* the sku read from a detail page that shows none: sku || '' (line 182)
EmptySku == <<>>

\* lines 207-212: the operation returns the details read when their sku is
\* not empty and throws otherwise. The variant returns them whatever the sku.
ExtractResultAnySku(details) ==
    [ok |-> TRUE, val |-> details, err |-> NoError,
     reached |-> TRUE, sku |-> details.sku]
ExtractResult(details) ==
    IF details.sku # EmptySku
    THEN [ok |-> TRUE, val |-> details, err |-> NoError,
          reached |-> TRUE, sku |-> details.sku]
    ELSE [ok |-> FALSE, val |-> "",
          err |-> MkError(ExtractFailed.name, ExtractFailed.msg, 0),
          reached |-> TRUE, sku |-> details.sku]

\* lines 129-212: one attempt of the operation extractProductDetails
\* hands to retry, on link productLinks[i]
ExtractAttempt ==
    /\ pc = "extract"
    /\ LET link == CurrentLink
           shown == RecordOf(link.cat, link.page, link.idx) IN
       \/ /\ RetryIteration(ExtractResult(shown))
          /\ loc' = Detail(link.cat, link.page)
          /\ UNCHANGED faults
       \/ /\ MayFail          \* the detail page shows no sku element
          /\ RetryIteration(ExtractResult([shown EXCEPT !.sku = EmptySku]))
          /\ loc' = Detail(link.cat, link.page)
          /\ faults' = faults + 1
       \/ /\ MayFail          \* page.goto rejects
          /\ \E e \in {NavTimeout, TargetClosed} :
               RetryIteration([ok |-> FALSE, val |-> "",
                               err |-> MkError(e.name, e.msg, 0),
                               reached |-> FALSE, sku |-> EmptySku])
          /\ faults' = faults + 1
          /\ UNCHANGED loc
    /\ UNCHANGED <<pc, browser, caught, thrown, launches, closes,
                   guestClicked, zipEntered>>
    /\ UNCHANGED <<traversalVars, categoryVars, pageVars, storeVars, batchVars>>

\* lines 261-265: the catch of the link loop logs and continues with the
\* next link. The variant leaves the loop, as a break would.
LinkCatchBreaks == li' = Len(productLinks)
LinkCatch == li' = li + 1

\* lines 249-265: the link loop takes the record, or catches and skips
ExtractProductDetailsDone ==
    /\ pc = "extract"
    /\ rpc \in {"returned", "threw"}
    /\ linkLog' = Append(linkLog, rpc = "returned")
    /\ IF rpc = "returned"
       THEN /\ categoryProducts' = Append(categoryProducts, rresult.val)
            /\ li' = li + 1
       ELSE /\ LinkCatch
            /\ UNCHANGED categoryProducts
    /\ pc' = "link"
    /\ RetryLeave
    /\ UNCHANGED <<productLinks, saveLog, siteVars>>
    /\ UNCHANGED <<browser, loc, caught, thrown, launches, closes,
                   guestClicked, zipEntered, faults>>
    /\ UNCHANGED <<traversalVars, categoryVars, storeVars, batchVars>>

\* lines 270-280: one turn of batchUpsertProducts on the page's records
SavePageStep ==
    /\ pc = "save"
    /\ BatchIteration(now, FALSE)
    /\ UNCHANGED <<runVars, retryVars>>

\* lines 274-282: batchUpsertProducts returned
SavePageDone ==
    /\ pc = "save"
    /\ bpc = "returned"
    /\ pc' = "page_done"
    /\ bpc' = "idle"
    /\ UNCHANGED <<productsArray, isArray, bi, saved, errors, failed>>
    /\ UNCHANGED <<browser, loc, caught, thrown, launches, closes,
                   guestClicked, zipEntered, faults>>
    /\ UNCHANGED <<traversalVars, categoryVars, pageVars, retryVars, storeVars>>

\* line 441: the page limit check after a page was scraped. The variant
\* compares with > and so lets one more advance through.
PageLimitReachedOffByOne == currentPage > maxPagesPerCategory
PageLimitReached == currentPage >= maxPagesPerCategory

\* line 439: allCategoryProducts.push(...pageProducts). The variant
\* assigns the page's list instead of pushing it.
PushPageProductsAssigning(all, pageProducts) == pageProducts
PushPageProducts(all, pageProducts) == all \o pageProducts

\* lines 438-444: the page's records join the category's; the limit check
PageDone ==
    /\ pc = "page_done"
    /\ allCategoryProducts' =
           PushPageProducts(allCategoryProducts, categoryProducts)
    /\ pageResults' = Append(pageResults, categoryProducts)
    /\ IF PageLimitReached
       THEN /\ pc' = "return"
            /\ loopExit' = "pages"
       ELSE /\ pc' = "advance"
            /\ UNCHANGED loopExit
    /\ UNCHANGED <<currentPage, categoryPageUrl, pagesExtracted, advances,
                   refusals, startFaults, refreshes, urlLog, navLog>>
    /\ UNCHANGED <<browser, loc, caught, thrown, launches, closes,
                   guestClicked, zipEntered, faults>>
    /\ UNCHANGED <<traversalVars, pageVars, retryVars, storeVars, batchVars>>

\* The pagination controls of a listing: the designated next button
\* (pagination.nextButton) and the numbered buttons button_page_1 .. _n
\* (pagination.pageButtons), in document order. The next button is
\* "enabled", "throws" (enabled, but click() throws), "disabled" or
\* "absent"; a numbered button is "absent", "enabled", "active" (class
\* active) or "disabled" (attribute disabled).
NextStates == {"enabled", "throws", "disabled", "absent"}
ButtonStates == {"absent", "enabled", "active", "disabled"}
AllPaginationDoms ==
    [next : NextStates, pages : [1..MaxPageButtons -> ButtonStates]]
NoPagination ==
    [next |-> "absent", pages |-> [n \in 1..MaxPageButtons |-> "absent"]]

\* the controls a listing of the site may show on page where.page: the
\* numbered buttons, when there are any, mark the page shown as the active
\* one and no other; any other page shows none
PaginationDoms(where) ==
    IF where.kind = "listing"
    THEN LET others == (1..MaxPageButtons) \ {where.page}
             numbered ==
                 {NoPagination.pages}
                 \cup IF where.page <= MaxPageButtons
                      THEN {[n \in 1..MaxPageButtons |->
                               IF n = where.page THEN "active" ELSE f[n]] :
                            f \in [others -> {"absent", "enabled"}]}
                      ELSE {} IN
         [next : NextStates, pages : numbered]
    ELSE {NoPagination}

\* line 326: the first numbered button that is .active or [disabled];
\* 0 when there is none
ActiveButton(dom) ==
    LET marked == {n \in 1..MaxPageButtons :
                     dom.pages[n] \in {"active", "disabled"}} IN
    IF marked = {} THEN 0
    ELSE CHOOSE n \in marked : \A m \in marked : n <= m

\* the objects the evaluate returns, with the control it clicked
Clicked(method, control, n) ==
    [success |-> TRUE, method |-> method, reason |-> "", page |-> n,
     clicked |-> control]
NotClicked(reason) ==
    [success |-> FALSE, method |-> "", reason |-> reason, page |-> 0,
     clicked |-> "none"]
NotEvaluated == NotClicked("not-evaluated")

\* lines 321-343: the numbered buttons as fallback
NumberedFallback(dom) ==
    IF \E n \in 1..MaxPageButtons : dom.pages[n] # "absent"
    THEN LET currentPageShown ==
                 IF ActiveButton(dom) = 0 THEN 1 ELSE ActiveButton(dom)
             nextPageNumber == currentPageShown + 1 IN
         IF /\ nextPageNumber <= MaxPageButtons
            /\ dom.pages[nextPageNumber] \notin {"absent", "disabled"}
         THEN Clicked("numbered-pagination", "page", nextPageNumber)
         ELSE NotClicked("no-buttons-found")
    ELSE NotClicked("no-buttons-found")

\* lines 297-345: the page.evaluate of navigateToNextPage. The variant goes
\* on to the numbered buttons when the next button is disabled.
NextPageClickedFallingThrough(dom) ==
    IF dom.next \in {"enabled", "throws"}
    THEN Clicked(IF dom.next = "throws" THEN "exact-data-id-dispatch"
                 ELSE "exact-data-id-click", "next", 0)
    ELSE NumberedFallback(dom)
NextPageClicked(dom) ==
    IF dom.next # "absent"
    THEN IF dom.next # "disabled"
         THEN Clicked(IF dom.next = "throws" THEN "exact-data-id-dispatch"
                      ELSE "exact-data-id-click", "next", 0)
         ELSE NotClicked("button-disabled")
    ELSE NumberedFallback(dom)

\* lines 346-366: what navigateToNextPage returns
NavigateReturn(result) == result.success

\* lines 289-294 and 447: the listing navigateToNextPage loads before it
\* looks for the controls is its argument, categoryPageUrl. The variant
\* keeps to the page the browser shows.
RenavigationTargetCurrent == loc
RenavigationTarget == categoryPageUrl

\* lines 285-367 and 446-455: navigateToNextPage(categoryPageUrl), then the
\* loop takes its answer
NavigateToNextPage ==
    /\ pc = "advance"
    /\ advances' = advances + 1
    /\ navLog' = Append(navLog, RenavigationTarget)
    /\ \/ /\ MayFail          \* page.goto(categoryPageUrl) rejects, line 290
          /\ faults' = faults + 1
          /\ pc' = "category_threw"
          /\ UNCHANGED <<loc, currentPage, categoryPageUrl, refusals, loopExit>>
       \/ /\ \E dom \in PaginationDoms(RenavigationTarget) :
               IF NavigateReturn(NextPageClicked(dom))
               THEN /\ loc' = Listing(RenavigationTarget.cat, currentPage + 1)
                    /\ currentPage' = currentPage + 1
                    /\ categoryPageUrl' = loc'
                    /\ pc' = "page"
                    /\ UNCHANGED <<refusals, loopExit>>
               ELSE /\ loc' = RenavigationTarget
                    /\ refusals' = refusals + 1
                    /\ loopExit' = "refused"
                    /\ pc' = "return"
                    /\ UNCHANGED <<currentPage, categoryPageUrl>>
          /\ UNCHANGED faults
    /\ urlLog' = IF pc' = "page" THEN Append(urlLog, categoryPageUrl')
                 ELSE urlLog
    /\ UNCHANGED <<allCategoryProducts, pagesExtracted, startFaults,
                   refreshes, pageResults>>
    /\ UNCHANGED <<browser, caught, thrown, launches, closes, guestClicked,
                   zipEntered>>
    /\ UNCHANGED <<traversalVars, pageVars, retryVars, storeVars, batchVars>>

\* lines 466-553: returnToCategoryListPage
ReturnToCategoryListPage ==
    /\ pc = "return"
    /\ \/ /\ loc' = Discover        \* the list is shown again
          /\ pc' = "category_returned"
          /\ UNCHANGED <<faults, refreshes>>
       \/ /\ MayFail          \* lines 514-533: the page loads, but no marker
          /\ faults' = faults + 1      \* is visible, not after the scroll
          /\ loc' = DiscoverBare       \* either: "continuing anyway"
          /\ pc' = "category_returned"
          /\ UNCHANGED refreshes
       \/ /\ MayFail          \* the try fails, the refresh of line 542 works
          /\ faults' = faults + 1
          /\ refreshes' = refreshes + 1
          /\ loc' = Discover
          /\ pc' = "category_returned"
       \/ /\ faults + 2 <= MaxFaults    \* both fail: line 549 throws
          /\ faults' = faults + 2
          /\ refreshes' = refreshes + 1
          /\ pc' = "category_threw"
          /\ UNCHANGED loc
    /\ UNCHANGED <<currentPage, categoryPageUrl, allCategoryProducts,
                   pagesExtracted, advances, refusals, startFaults, loopExit,
                   pageResults, urlLog, navLog>>
    /\ UNCHANGED <<browser, caught, thrown, launches, closes, guestClicked,
                   zipEntered>>
    /\ UNCHANGED <<traversalVars, pageVars, retryVars, storeVars, batchVars>>

\* lines 573-576: the catch around exportToCsv logs and falls through to
\* the delay and the next turn of the for-of loop. The variant leaves the
\* loop instead.
ExportCatchLeavesLoop ==
    /\ catLog' = [catLog EXCEPT ![catIdx] =
                    [status |-> "returned", n |-> Len(allCategoryProducts),
                     exported |-> FALSE, faults |-> faults + 1 - startFaults]]
    /\ catIdx' = catIdx + 1
    /\ pc' = "summary"
ExportCatch ==
    NextCategory("returned", Len(allCategoryProducts), FALSE,
                 faults + 1 - startFaults)

\* lines 560-580: scrapeCategory returned; its records are pushed and, when
\* there are any, exportToCsv is called (it rejects on an empty table)
CategoryReturned ==
    /\ pc = "category_returned"
    /\ allProducts' = allProducts \o allCategoryProducts
    /\ IF Len(allCategoryProducts) > 0
       THEN \/ /\ exports' = Append(exports,
                                    [category |-> catIdx, ok |-> table # {}])
               /\ UNCHANGED faults
               /\ NextCategory("returned", Len(allCategoryProducts), table # {},
                               faults - startFaults)
            \/ /\ MayFail     \* the file cannot be written
               /\ faults' = faults + 1
               /\ exports' = Append(exports, [category |-> catIdx, ok |-> FALSE])
               /\ ExportCatch
       ELSE /\ UNCHANGED <<exports, faults>>
            /\ NextCategory("returned", 0, FALSE, faults - startFaults)
    /\ UNCHANGED listAtStart
    /\ UNCHANGED <<browser, loc, caught, thrown, launches, closes,
                   guestClicked, zipEntered>>
    /\ UNCHANGED <<categoryVars, pageVars, retryVars, storeVars, batchVars>>

\* lines 582-585: the catch of the for-of loop only logs: the list the walk
\* had built is a local of scrapeCategory and is lost with the throw. The
\* variant salvages the pages the walk had collected.
OuterCatchSalvaging ==
    /\ allProducts' = allProducts \o allCategoryProducts
    /\ UNCHANGED exports
OuterCatch ==
    UNCHANGED <<allProducts, exports>>

\* lines 582-585: the catch of the for-of loop logs and continues
CategoryThrew ==
    /\ pc = "category_threw"
    /\ NextCategory("threw", 0, FALSE, faults - startFaults)
    /\ OuterCatch
    /\ UNCHANGED listAtStart
    /\ UNCHANGED <<browser, loc, caught, thrown, launches, closes,
                   guestClicked, zipEntered, faults>>
    /\ UNCHANGED <<categoryVars, pageVars, retryVars, storeVars, batchVars>>

\* lines 598-616: the final summary; nothing in it throws
Summary ==
    /\ pc = "summary"
    /\ pc' = "finally"
    /\ UNCHANGED <<browser, loc, caught, thrown, launches, closes,
                   guestClicked, zipEntered, faults>>
    /\ UNCHANGED <<traversalVars, categoryVars, pageVars, retryVars,
                   storeVars, batchVars>>

\* line 622: if (browser). The variant releases after a clean run only.
ReleaseNeededOnSuccess == browser # "null" /\ caught = NoError
ReleaseNeeded == browser # "null"

\* lines 618-625: catch rethrows, finally closes the browser; an exception
\* leaving the finally block replaces the one being rethrown
Finally ==
    /\ pc = "finally"
    /\ IF ReleaseNeeded
       THEN /\ closes' = closes + 1
            /\ browser' = "closed"
            /\ \/ thrown' = caught           \* browser.close() resolved
               \/ thrown' = CloseFailed     \* browser.close() rejected
       ELSE /\ thrown' = caught
            /\ UNCHANGED <<closes, browser>>
    /\ pc' = "done"
    /\ UNCHANGED <<loc, caught, launches, guestClicked, zipEntered, faults>>
    /\ UNCHANGED <<traversalVars, categoryVars, pageVars, retryVars,
                   storeVars, batchVars>>

(***************************************************************************)
(* The page.evaluate of extractProductDetails, lines 145-205.              *)
(* A text is a sequence of tokens, " " being white space; the document     *)
(* maps each configured selector to the element it selects, if any.        *)
(***************************************************************************)
\* the selectors read with getTextBySelector (lines 160-173)
TextSelectors ==
    {"sku", "brand_name", "packaging_information", "packaging_size",
     "description", "category", "ingredients", "gtin", "upc", "case_size",
     "weight", "storage_instructions", "product_name"}

\* every selector the evaluation reads: those, the picture and the ZIP marker
Selectors == TextSelectors \cup {"picture_url", "location_zip"}

\* what document.querySelector gives: null, or an element with its text
\* (for the picture: its src attribute)
NoElement == [present |-> FALSE, text |-> <<>>]
Element(text) == [present |-> TRUE, text |-> text]
BlankElement == Element(<<" ">>)
TextElement == Element(<<" ", "t", " ">>)

\* String.prototype.trim
RECURSIVE Trim(_)
Trim(text) ==
    IF text = <<>> THEN <<>>
    ELSE IF Head(text) = " " THEN Trim(Tail(text))
    ELSE IF text[Len(text)] = " " THEN Trim(SubSeq(text, 1, Len(text) - 1))
    ELSE text

\* a || b on strings
OrElse(text, fallback) == IF text # <<>> THEN text ELSE fallback

\* lines 148-151: element?.textContent?.trim() || ''
getTextBySelector(d, selector) ==
    IF d[selector].present THEN OrElse(Trim(d[selector].text), <<>>) ELSE <<>>

\* lines 154-157: element?.getAttribute(attribute) || ''
getAttributeBySelector(d, selector) ==
    IF d[selector].present THEN OrElse(d[selector].text, <<>>) ELSE <<>>

\* lines 176-180: the location ZIP code read from the page
LocationZipOf(d) ==
    IF d["location_zip"].present
    THEN OrElse(Trim(d["location_zip"].text), <<"97209">>)
    ELSE <<"97209">>

\* line 183: brand_name: brandName || 'Sysco'. The variant has no
\* placeholder.
BrandNameOfNoPlaceholder(d) == getTextBySelector(d, "brand_name")
BrandNameOf(d) == OrElse(getTextBySelector(d, "brand_name"), <<"Sysco">>)

\* lines 181-198: the object the evaluation returns
PageEvaluate(d) ==
    [sku |-> OrElse(getTextBySelector(d, "sku"), <<>>),
     brand_name |-> BrandNameOf(d),
     product_name |-> OrElse(getTextBySelector(d, "product_name"),
                             <<"Product">>),
     packaging_information |->
         OrElse(getTextBySelector(d, "packaging_information"),
                <<"Standard packaging">>),
     packaging_size |-> OrElse(getTextBySelector(d, "packaging_size"), <<>>),
     picture_url |-> OrElse(getAttributeBySelector(d, "picture_url"), <<>>),
     description |-> OrElse(getTextBySelector(d, "description"),
                            <<"Premium quality product from Sysco">>),
     category |-> OrElse(getTextBySelector(d, "category"), <<>>),
     ingredients |-> OrElse(getTextBySelector(d, "ingredients"), <<>>),
     gtin |-> OrElse(getTextBySelector(d, "gtin"), <<>>),
     upc |-> OrElse(getTextBySelector(d, "upc"), <<>>),
     case_size |-> OrElse(getTextBySelector(d, "case_size"), <<>>),
     weight |-> OrElse(getTextBySelector(d, "weight"), <<>>),
     storage_instructions |->
         OrElse(getTextBySelector(d, "storage_instructions"), <<>>),
     product_url |-> <<"url">>,
     location_zip |-> LocationZipOf(d)]

\* a detail page that shows every element
FullDom == [selector \in Selectors |-> TextElement]

\* the detail pages considered: at most MaxDeviant selectors find no
\* element, or an element with blank text
Doms ==
    {[selector \in Selectors |->
        IF selector \in DOMAIN g THEN g[selector] ELSE TextElement] :
     g \in UNION {[S -> {NoElement, BlankElement}] :
                    S \in {T \in SUBSET Selectors :
                             Cardinality(T) <= MaxDeviant}}}

RetryIdle ==
    /\ rpc = "idle"
    /\ ropts = [maxRetries |-> 0, baseDelay |-> 0,
                exponentialBackoff |-> FALSE, retryCondition |-> "default"]
    /\ attempt = 1
    /\ lastError = NoError
    /\ calls = 0
    /\ sleeps = <<>>
    /\ opLog = <<>>
    /\ rresult = NoResult

\* module load: let db = null; the table is as `npm run setup` left it
StoreIdle ==
    /\ db = "null"
    /\ table = {}
    /\ now = 0
    /\ upLog = <<>>

BatchIdle ==
    /\ bpc = "idle"
    /\ productsArray = <<>>
    /\ isArray = TRUE
    /\ bi = 0
    /\ saved = 0
    /\ errors = 0
    /\ failed = {}

\* module load of sysco-paginated.js: let browser; let page;
WalkIdle ==
    /\ pc = "start"
    /\ browser = "null"
    /\ loc = Blank
    /\ caught = NoError
    /\ thrown = NoError
    /\ launches = 0
    /\ closes = 0
    /\ guestClicked = FALSE
    /\ zipEntered = FALSE
    /\ modalButtons = <<>>
    /\ modalClicks = <<>>
    /\ faults = 0
    /\ catIdx = 1
    /\ allProducts = <<>>
    /\ exports = <<>>
    /\ catLog = [c \in 1..NumCategories |->
                   [status |-> "pending", n |-> 0, exported |-> FALSE,
                    faults |-> 0]]
    /\ listAtStart = FALSE
    /\ currentPage = 1
    /\ categoryPageUrl = Blank
    /\ allCategoryProducts = <<>>
    /\ pagesExtracted = 0
    /\ advances = 0
    /\ refusals = 0
    /\ startFaults = 0
    /\ loopExit = "none"
    /\ refreshes = 0
    /\ pageResults = <<>>
    /\ urlLog = <<>>
    /\ navLog = <<>>
    /\ productLinks = <<>>
    /\ li = 0
    /\ categoryProducts = <<>>
    /\ linkLog = <<>>
    /\ saveLog = <<>>

\* no run has started, and a detail page would show every element
\* the configuration as shipped: every category has its selector, and the
\* location is the default of sysco-config.js line 120
ConfigIdle == categorySelectors = 1..NumCategories /\ zipCode = DefaultZip

\* no pagination controls are under examination
PaginateIdle == pagination = NoPagination /\ nextPageClicked = NotEvaluated

RunIdle ==
    /\ WalkIdle
    /\ document = FullDom
    /\ ConfigIdle
    /\ PaginateIdle

(***************************************************************************)
(* Spec: one run of runScraper on an empty table, with the configuration   *)
(* as shipped or with the first category's selector missing.               *)
(***************************************************************************)
SelectorConfigs == {1..NumCategories, 2..NumCategories}

Init ==
    /\ RetryIdle
    /\ StoreIdle
    /\ BatchIdle
    /\ WalkIdle
    /\ document = FullDom
    /\ categorySelectors \in SelectorConfigs
    /\ zipCode = DefaultZip
    /\ PaginateIdle

Next ==
    \/ InitializeBrowser
    \/ AuthenticateEnter
    \/ AuthGoto
    \/ AuthenticateAsGuest
    \/ HandleZipCodeModal
    \/ ScrapeAllEnter
    \/ ScrapeCategoryEnter
    \/ ScrapeProductsFromPageEnter
    \/ ExtractProductDetailsEnter
    \/ ExtractAttempt
    \/ ExtractProductDetailsDone
    \/ SavePageStep
    \/ SavePageDone
    \/ PageDone
    \/ NavigateToNextPage
    \/ ReturnToCategoryListPage
    \/ CategoryReturned
    \/ CategoryThrew
    \/ Summary
    \/ Finally

Spec == Init /\ [][Next]_vars

(***************************************************************************)
(* SpecStore: callers upsert single records and batches into the table.    *)
(***************************************************************************)
InitStore == RetryIdle /\ StoreIdle /\ BatchIdle /\ RunIdle

NextStore == UpsertCall

SpecStore == InitStore /\ [][NextStore]_vars

(***************************************************************************)
(* SpecBatch: batchUpsertProducts called once, on a table that is empty or *)
(* holds a row an earlier run stored, with an array or with a value that   *)
(* is not one (a string, an object with a length).                         *)
(***************************************************************************)
SeedTables ==
    {{},
     {[sku |-> "A", location_zip |-> "10001", product_name |-> "Product",
       val |-> "v2", scraped_date |-> 0, updated_date |-> 0]}}

InitBatch ==
    /\ RetryIdle
    /\ RunIdle
    /\ db = "null"
    /\ table \in SeedTables
    /\ now = 0
    /\ upLog = <<>>
    /\ productsArray \in SeqsUpTo(BatchRecords, MaxBatchLen)
    /\ isArray \in BOOLEAN
    /\ bi = 0
    /\ saved = 0
    /\ errors = 0
    /\ failed = {}
    /\ bpc = IF BatchGuard(isArray, productsArray) THEN "returned" ELSE "loop"

NextBatch == BatchStep

SpecBatch == InitBatch /\ [][NextBatch]_vars

(***************************************************************************)
(* SpecRetry: retry() called once with any options, on an operation whose  *)
(* every invocation the environment decides.                               *)
(***************************************************************************)
RetryOptions ==
    [maxRetries : 0..MaxRetriesArg,
     baseDelay : {1000, 2000},
     exponentialBackoff : BOOLEAN,
     retryCondition : {"default", "shouldRetryError", "never"}]

OpErrors == {NavTimeout, ExtractFailed, TargetClosed}

OpOutcomes ==
    {[ok |-> TRUE, val |-> v, err |-> NoError] : v \in {"r1", "r2"}}
    \cup {[ok |-> FALSE, val |-> "", err |-> MkError(e.name, e.msg, 0)] :
            e \in OpErrors}

InitRetry ==
    /\ rpc = "loop"
    /\ ropts \in RetryOptions
    /\ attempt = 1
    /\ lastError = NoError
    /\ calls = 0
    /\ sleeps = <<>>
    /\ opLog = <<>>
    /\ rresult = NoResult
    /\ StoreIdle
    /\ BatchIdle
    /\ RunIdle

RetryOperation ==
    /\ \E out \in OpOutcomes : RetryIteration(out)
    /\ UNCHANGED <<storeVars, batchVars, runVars>>

NextRetry == RetryOperation

SpecRetry == InitRetry /\ [][NextRetry]_vars
(***************************************************************************)
(* SpecExtract: extractProductDetails called once on a detail page whose   *)
(* document does not change between attempts, with SYSCO_LOCATION_ZIP      *)
(* unset or set to another ZIP.                                            *)
(***************************************************************************)
InitExtract ==
    /\ rpc = "loop"
    /\ ropts = [maxRetries |-> cfgMaxRetries, baseDelay |-> 2000,
                exponentialBackoff |-> TRUE,
                retryCondition |-> "shouldRetryError"]
    /\ attempt = 1
    /\ lastError = NoError
    /\ calls = 0
    /\ sleeps = <<>>
    /\ opLog = <<>>
    /\ rresult = NoResult
    /\ StoreIdle
    /\ BatchIdle
    /\ WalkIdle
    /\ document \in Doms
    /\ categorySelectors = 1..NumCategories
    /\ zipCode \in Zips
    /\ PaginateIdle

\* lines 129-212: one attempt, the page loads and is evaluated
ExtractOperation ==
    /\ RetryIteration(ExtractResult(PageEvaluate(document)))
    /\ UNCHANGED <<storeVars, batchVars, runVars>>

NextExtract == ExtractOperation

SpecExtract == InitExtract /\ [][NextExtract]_vars

(***************************************************************************)
(* SpecPaginate: the page.evaluate of navigateToNextPage run once on a     *)
(* listing with any pagination controls.                                   *)
(***************************************************************************)
InitPaginate ==
    /\ RetryIdle
    /\ StoreIdle
    /\ BatchIdle
    /\ WalkIdle
    /\ document = FullDom
    /\ ConfigIdle
    /\ pagination \in AllPaginationDoms
    /\ nextPageClicked = NotEvaluated

\* lines 297-345: the controls are examined and one of them is clicked
PaginateOperation ==
    /\ nextPageClicked = NotEvaluated
    /\ nextPageClicked' = NextPageClicked(pagination)
    /\ UNCHANGED <<document, categorySelectors, zipCode, pagination>>
    /\ UNCHANGED <<modalButtons, modalClicks>>
    /\ UNCHANGED <<productLinks, li, categoryProducts, linkLog, saveLog>>
    /\ UNCHANGED <<sessionVars, traversalVars, categoryVars>>
    /\ UNCHANGED <<retryVars, storeVars, batchVars>>

NextPaginate == PaginateOperation

SpecPaginate == InitPaginate /\ [][NextPaginate]_vars

(***************************************************************************)
(* Claims about retry(), checked under SpecRetry.                          *)
(***************************************************************************)
\* the error invocation i threw, as retry sees it
LoggedError(i) == MkError(opLog[i].err.name, opLog[i].err.msg, i)

\* invocation i failed with an error the retry condition accepts
AcceptedFailure(i) ==
    /\ ~opLog[i].ok
    /\ RetryCondition(ropts.retryCondition, LoggedError(i))

\* invocation i failed with an error the retry condition refuses
RefusedFailure(i) ==
    /\ ~opLog[i].ok
    /\ ~RetryCondition(ropts.retryCondition, LoggedError(i))

\* C2: retry never invokes the operation more than maxRetries + 1 times;
\* when every attempt failed with an error the retry condition accepts and
\* retry has ended, the operation was invoked exactly maxRetries + 1 times
\* and retry threw the error of the last attempt.
C2_RetryBound ==
    /\ calls <= ropts.maxRetries + 1
    /\ Len(opLog) = calls
    /\ (\A i \in 1..Len(opLog) : AcceptedFailure(i))
          => \/ rpc = "loop" /\ calls < ropts.maxRetries + 1
             \/ /\ rpc = "threw"
                /\ calls = ropts.maxRetries + 1
                /\ rresult.err = LoggedError(calls)

\* C2 witness: maxRetries = 3, four accepted failures, retry threw.
C2_Witness ==
    /\ ropts.maxRetries = 3
    /\ ropts.retryCondition = "shouldRetryError"
    /\ rpc = "threw"
    /\ calls = 4
    /\ \A i \in 1..4 : AcceptedFailure(i)

\* C3: when the operation failed k <= maxRetries times with accepted errors
\* and then succeeded, retry has returned the value of that attempt after
\* exactly k + 1 invocations; no invocation follows a success.
C3_RetrySuccessPath ==
    \A i \in 1..Len(opLog) :
        opLog[i].ok =>
            /\ i = Len(opLog)
            /\ calls = i
            /\ i - 1 <= ropts.maxRetries
            /\ \A j \in 1..(i - 1) : AcceptedFailure(j)
            /\ rpc = "returned"
            /\ rresult.ok
            /\ rresult.val = opLog[i].val
            /\ rresult.by = i

\* C3 witness: two failures, then a success returned at the third call.
C3_Witness ==
    /\ rpc = "returned"
    /\ calls = 3
    /\ ~opLog[1].ok /\ ~opLog[2].ok /\ opLog[3].ok
    /\ rresult.val = "r2"

\* C4: a failure the retry condition refuses ends retry at once: it is the
\* last invocation, retry threw that very error, and no sleep followed it
\* (the sleeps are those after the earlier failures only).
C4_NonRetryableThrowsAtOnce ==
    \A i \in 1..Len(opLog) :
        RefusedFailure(i) =>
            /\ i = Len(opLog)
            /\ calls = i
            /\ rpc = "threw"
            /\ rresult.err = LoggedError(i)
            /\ Len(sleeps) = i - 1

\* C4 witness: a refused failure at the second of four allowed attempts.
C4_Witness ==
    /\ ropts.maxRetries = 3
    /\ ropts.retryCondition = "shouldRetryError"
    /\ rpc = "threw"
    /\ calls = 2
    /\ AcceptedFailure(1)
    /\ RefusedFailure(2)
    /\ Len(sleeps) = 1
(***************************************************************************)
(* Claims about the store, checked under SpecStore and SpecBatch.          *)
(***************************************************************************)
\* calls i and i + 1 of upsertProduct name the same (sku, location_zip) and
\* carry different descriptive values, each with its product_name
SameKeyTwice(i) ==
    /\ upLog[i].productData.sku = upLog[i + 1].productData.sku
    /\ BoundZip(upLog[i].productData) = BoundZip(upLog[i + 1].productData)
    /\ upLog[i].productData.val # upLog[i + 1].productData.val
    /\ upLog[i].productData.product_name # Null
    /\ upLog[i + 1].productData.product_name # Null

\* C1: for any stored state, two calls of upsertProduct with the same
\* (sku, location_zip) and different descriptive values leave exactly one
\* row for that key, holding the second call's values, with scraped_date as
\* the first call set it and updated_date set by the second call.  The
\* timestamp clause is taken in its weakest reading (the second call's
\* reading of the clock, not earlier than the first's), so that a violation
\* owes nothing to the one-second resolution of CURRENT_TIMESTAMP.
C1_Idempotence ==
    \A i \in 1..(Len(upLog) - 1) :
        SameKeyTwice(i) =>
            /\ Cardinality(upLog[i].rows) = 1
            /\ Cardinality(upLog[i + 1].rows) = 1
            /\ \A first \in upLog[i].rows, second \in upLog[i + 1].rows :
                 /\ second.val = upLog[i + 1].productData.val
                 /\ second.product_name = upLog[i + 1].productData.product_name
                 /\ second.scraped_date = first.scraped_date
                 /\ second.updated_date = upLog[i + 1].at
                 /\ second.updated_date >= first.updated_date

\* C5: batchUpsertProducts never throws; it counts a record as saved or as
\* an error, never both; when it returns from an array it has attempted
\* every record, saved = n - |F| and errors = |F| for the set F of records
\* whose upsert was rejected, and every record outside F has its row in the
\* table.
C5_BatchIsolation ==
    /\ bpc # "threw"
    /\ failed \subseteq 1..bi
    /\ saved = bi - Cardinality(failed)
    /\ errors = Cardinality(failed)
    /\ (bpc = "returned" /\ isArray) =>
         /\ bi = Len(productsArray)
         /\ \A i \in (1..Len(productsArray)) \ failed :
              RowsOfKey(table, productsArray[i].sku,
                        BoundZip(productsArray[i])) # {}

\* C5 witness: a batch of three whose second record was rejected returned
\* saved 2, errors 1, with the first and third records stored.
C5_Witness ==
    /\ bpc = "returned"
    /\ Len(productsArray) = 3
    /\ failed = {2}
    /\ saved = 2
    /\ errors = 1
    /\ productsArray[1].sku # productsArray[3].sku
    /\ \A i \in {1, 3} :
         RowsOfKey(table, productsArray[i].sku, BoundZip(productsArray[i])) # {}

(***************************************************************************)
(* Claims about a run of runScraper, checked under Spec.                   *)
(***************************************************************************)
\* the walk of category c has ended
Walked(c) == catLog[c].status # "pending"

\* the records of category c that scrapeAllCategories accumulated are rows
\* of the table
Persisted(c) ==
    \A k \in 1..Len(allProducts) :
        allProducts[k].sku[1] = c
            => RowsOfKey(table, allProducts[k].sku,
                         allProducts[k].location_zip) # {}

\* C6: when traversal began on the category list and the walk of some
\* category B threw, every other category whose own walk met no failure of
\* the site still completes: it returns, it yields records, they are rows of
\* the table and its export succeeded; and the run reaches the summary only
\* after every category was walked.
C6_CategoryIsolation ==
    /\ \A c \in 1..NumCategories :
         (/\ listAtStart
          /\ Walked(c)
          /\ catLog[c].faults = 0
          /\ \E b \in 1..NumCategories : b # c /\ catLog[b].status = "threw")
            => /\ catLog[c].status = "returned"
               /\ catLog[c].n > 0
               /\ catLog[c].exported
               /\ Persisted(c)
    /\ pc = "summary" => \A c \in 1..NumCategories : Walked(c)

\* C7: scrapeCategory never extracts more than maxPagesPerCategory pages
\* nor advances more than maxPagesPerCategory - 1 times; when the page loop
\* has ended, no advance was refused and the product limit did not end it,
\* exactly maxPagesPerCategory pages were extracted and exactly
\* maxPagesPerCategory - 1 advances were made.
C7_PaginationTermination ==
    /\ pagesExtracted <= maxPagesPerCategory
    /\ advances <= maxPagesPerCategory - 1
    /\ (pc = "return" /\ refusals = 0 /\ loopExit # "guard")
          => /\ loopExit = "pages"
             /\ pagesExtracted = maxPagesPerCategory
             /\ advances = maxPagesPerCategory - 1

\* C7 witness: a walk on a listing that never refused ended at the page
\* limit, with records from its last page.
C7_Witness ==
    /\ pc = "return"
    /\ loopExit = "pages"
    /\ refusals = 0
    /\ pagesExtracted = maxPagesPerCategory
    /\ advances = maxPagesPerCategory - 1
    /\ loc = Detail(catIdx, maxPagesPerCategory)

\* C8: puppeteer.launch resolves at most once in a run, browser.close is
\* never called before the finally block, and when runScraper has ended it
\* was called exactly once if the browser was launched and not at all if it
\* was not.
C8_DriverReleasedOnce ==
    /\ launches <= 1
    /\ closes <= launches
    /\ pc # "done" => closes = 0
    /\ pc = "done" => closes = launches

\* C8 witness: a run whose location setup failed ended with the browser
\* launched once and closed once.
C8_Witness ==
    /\ pc = "done"
    /\ caught \in {ZipTimeout, ZipMissing}
    /\ launches = 1
    /\ closes = 1

\* C9: when runScraper has ended and a top-level step had failed, the error
\* runScraper rejected with is that step's error.
C9_OriginalFailureNotHidden ==
    (pc = "done" /\ caught # NoError) => thrown = caught

\* the session state of the run: 0 Uninitialized, 1 DriverReady,
\* 2 Authenticated, 3 LocationSet, 4 Traversing, 5 Finalized
SessionRank ==
    CASE pc = "start" -> 0
      [] pc \in {"authenticate", "auth_goto"} -> 1
      [] pc = "zip" -> 2
      [] pc = "located" -> 3
      [] pc \in {"finally", "done"} -> 5
      [] OTHER -> 4

\* C10: every step keeps the session state, moves it to the next one, or
\* finalizes; and while categories are walked the browser was launched, the
\* guest button was clicked and the ZIP code was entered, none with an error.
C10_SessionForwardOnly ==
    /\ [][SessionRank' \in {SessionRank, SessionRank + 1, 5}]_vars
    /\ [](SessionRank = 4 =>
            /\ browser = "open"
            /\ launches = 1
            /\ guestClicked
            /\ zipEntered
            /\ caught = NoError)

\* C10 witness: a category is being walked, on its listing.
C10_Witness ==
    /\ SessionRank = 4
    /\ loc.kind = "listing"
    /\ guestClicked
    /\ zipEntered

(***************************************************************************)
(* Claims about the store, checked under SpecStore.                        *)
(***************************************************************************)
\* the step is a call of upsertProduct with a record that has a name and
\* whose (sku, location_zip) pair matches no row of the table
UpsertOfNewKey ==
    /\ Len(upLog') = Len(upLog) + 1
    /\ upLog'[Len(upLog')].productData.product_name # Null
    /\ ~HitsConflictTarget(table, upLog'[Len(upLog')].productData)

\* C11: every upsertProduct of a record whose (sku, location_zip) pair
\* matches no stored row succeeds and adds exactly one row, the row of that
\* pair, also when another row already holds the same sku under a different
\* location_zip.
C11_InsertOfNewKey ==
    [][UpsertOfNewKey =>
          /\ upLog'[Len(upLog')].ok
          /\ Cardinality(table') = Cardinality(table) + 1
          /\ Cardinality(upLog'[Len(upLog')].rows) = 1]_vars

(***************************************************************************)
(* Further claims about a run of runScraper, checked under Spec.           *)
(***************************************************************************)
\* the calls of exportToCsv made after the walk of category c
ExportsOf(c) == {k \in 1..Len(exports) : exports[k].category = c}

\* C12: for every category whose walk returned without throwing, exportToCsv
\* was called exactly once after it, whatever the number of records the walk
\* returned.
C12_ExportPerCategory ==
    \A c \in 1..NumCategories :
        catLog[c].status = "returned" => Cardinality(ExportsOf(c)) = 1

\* C13: the records a page has collected never exceed what the category
\* still lacks up to maxProductsPerCategory, and the list scrapeCategory
\* builds never holds more than maxProductsPerCategory records.
C13_ProductCap ==
    /\ Len(allCategoryProducts) <= maxProductsPerCategory
    /\ pc \in {"link", "extract", "save", "page_done"} =>
         Len(categoryProducts) + Len(allCategoryProducts)
            <= maxProductsPerCategory

\* the calls of batchUpsertProducts made for page p of category c
SavesOf(c, p) == {k \in 1..Len(saveLog) :
                    saveLog[k].cat = c /\ saveLog[k].page = p}

\* every record of the list is a row of the table
AllStored(records) ==
    \A k \in 1..Len(records) :
        RowsOfKey(table, records[k].sku, BoundZip(records[k])) # {}

SkuBefore(a, b) ==
    \/ a[1] < b[1]
    \/ a[1] = b[1] /\ a[2] < b[2]
    \/ a[1] = b[1] /\ a[2] = b[2] /\ a[3] < b[3]

\* the records of the list are in that order, none twice
InSiteOrder(records) ==
    \A k \in 1..(Len(records) - 1) :
        SkuBefore(records[k].sku, records[k + 1].sku)

\* C15: the categories walked so far are exactly those before the loop's
\* position, which only moves one step forward; the k-th page extraction of
\* a category is of page k and the page counter only moves one step forward
\* within a category; the link index only moves one step forward within a
\* page; and the records collected by a page, by a category and by the run
\* are in the order category, page, link of the site, none twice.
C15_VisitOrder ==
    /\ [](/\ \A c \in 1..NumCategories :
                Walked(c) <=> c < catIdx
          /\ pc \in {"link", "extract", "save", "page_done"} =>
                /\ pagesExtracted = currentPage
                /\ \A k \in 1..Len(categoryProducts) :
                     /\ categoryProducts[k].sku[1] = catIdx
                     /\ categoryProducts[k].sku[2] = currentPage
                     /\ categoryProducts[k].sku[3] <= li
          /\ InSiteOrder(categoryProducts)
          /\ InSiteOrder(allCategoryProducts)
          /\ InSiteOrder(allProducts))
    /\ [][/\ catIdx' \in {catIdx, catIdx + 1}
          /\ currentPage' \in {currentPage, currentPage + 1, 1}
          /\ currentPage' = currentPage + 1 => catIdx' = catIdx
          /\ li' \in {li, li + 1, 0}
          /\ li' = li + 1 => currentPage' = currentPage]_vars

\* C15 witness: the run reached the summary with the records of two pages of
\* every category accumulated.
C15_Witness ==
    /\ pc = "summary"
    /\ \A c \in 1..NumCategories :
         \E j, k \in 1..Len(allProducts) :
            /\ allProducts[j].sku = <<c, 1, 1>>
            /\ allProducts[k].sku = <<c, 2, 2>>

\* attempt i of the running extractProductDetails reached the detail page
\* and read a sku that is not empty
ReadSku(i) == opLog[i].reached /\ opLog[i].sku # EmptySku

\* attempt i reached the detail page and read an empty sku
ReadNoSku(i) == opLog[i].reached /\ opLog[i].sku = EmptySku

\* C16: while extractProductDetails runs, the detail page is navigated at
\* most maxRetries + 1 times; the call goes on only while no attempt read a
\* sku; when it has ended it returned a record, with a non-empty sku, if and
\* only if some attempt read a non-empty sku; an attempt that read an empty
\* sku failed with an error shouldRetryError accepts; and when every attempt
\* read an empty sku the call ends only after exactly maxRetries + 1
\* attempts, by throwing.
C16_ExtractionValidity ==
    pc = "extract" =>
        /\ ropts.maxRetries = cfgMaxRetries
        /\ calls <= cfgMaxRetries + 1
        /\ Len(opLog) = calls
        /\ rpc = "loop" => \A i \in 1..calls : ~ReadSku(i)
        /\ rpc = "returned" <=> \E i \in 1..calls : ReadSku(i)
        /\ rpc = "returned" => rresult.val.sku # EmptySku
        /\ \A i \in 1..calls :
             ReadNoSku(i) => ~opLog[i].ok /\ shouldRetryError(opLog[i].err)
        /\ (\A i \in 1..calls : ReadNoSku(i)) =>
              \/ rpc = "loop" /\ calls < cfgMaxRetries + 1
              \/ rpc = "threw" /\ calls = cfgMaxRetries + 1

\* C16 witness: a detail page that never showed a sku was navigated
\* maxRetries + 1 times and the call threw.
C16_Witness ==
    /\ pc = "extract"
    /\ rpc = "threw"
    /\ calls = cfgMaxRetries + 1
    /\ \A i \in 1..calls : ReadNoSku(i)

(***************************************************************************)
(* Claims about the extraction of one detail page, checked under           *)
(* SpecExtract.                                                            *)
(***************************************************************************)
\* the value the claim gives a field whose element is missing
ClaimedDefault(field) ==
    CASE field = "brand_name" -> <<"Sysco">>
      [] field = "product_name" -> <<"Product">>
      [] field = "description" -> <<"Premium quality product from Sysco">>
      [] field = "location_zip" -> <<"97209">>
      [] OTHER -> <<>>

\* the same, with the placeholder of packaging_information
AmendedDefault(field) ==
    IF field = "packaging_information"
    THEN <<"Standard packaging">>
    ELSE ClaimedDefault(field)

\* C17 as stated: in the record extractProductDetails returned, every field
\* whose element is missing from the page is the empty string, except
\* brand_name, product_name and description, which are their placeholders,
\* and location_zip, which is the default ZIP.
C17_FieldDefaults_Original ==
    rpc = "returned" =>
        \A field \in Selectors :
            ~document[field].present =>
                rresult.val[field] = ClaimedDefault(field)

\* C17 amended: in the record extractProductDetails returned, every field
\* whose element is missing from the page is the empty string, except
\* brand_name, product_name, description and packaging_information, which
\* are their placeholders, and location_zip, which is the default ZIP; a
\* missing brand element yields the brand placeholder.
C17_FieldDefaults ==
    rpc = "returned" =>
        /\ \A field \in Selectors :
             ~document[field].present =>
                 rresult.val[field] = AmendedDefault(field)
        /\ ~document["brand_name"].present =>
               rresult.val.brand_name = <<"Sysco">>

\* C17 witness: a page without brand element and without category element
\* gave a record with the brand placeholder and an empty category.
C17_Witness ==
    /\ rpc = "returned"
    /\ ~document["brand_name"].present
    /\ ~document["category"].present
    /\ rresult.val.brand_name = <<"Sysco">>
    /\ rresult.val.category = <<>>

\* no category walk was started
NothingWalked ==
    /\ catIdx = 1
    /\ \A c \in 1..NumCategories : ~Walked(c)
    /\ pc \notin {"category", "page", "link", "extract", "save", "page_done",
                  "advance", "return", "category_returned", "category_threw",
                  "summary"}
    /\ pagesExtracted = 0
    /\ saveLog = <<>>

\* runScraper has ended by throwing, with the browser closed once
ThrewAndReleased ==
    pc = "done" => thrown # NoError /\ closes = 1 /\ browser = "closed"

\* C18: the step that does not find the guest button throws at once; from
\* then on nothing is navigated or clicked again, the ZIP step and the
\* category walks never start, and when runScraper has ended it threw and
\* the browser was closed.
C18_GuestControlMissing ==
    /\ [][(pc = "auth_goto" /\ rpc = "returned" /\ faults' = faults + 1)
             => caught' = GuestMissing /\ pc' = "finally"]_vars
    /\ [][caught = GuestMissing
             => calls' = calls /\ loc' = loc /\ pc' \in {"finally", "done"}]_vars
    /\ [](caught = GuestMissing =>
             /\ pc \in {"finally", "done"}
             /\ ~guestClicked
             /\ ~zipEntered
             /\ NothingWalked
             /\ ThrewAndReleased)

\* C18 witness: the guest button was not found and runScraper ended by
\* throwing that error, the browser closed.
C18_Witness ==
    /\ pc = "done"
    /\ caught = GuestMissing
    /\ thrown = GuestMissing
    /\ closes = 1
    /\ calls = 1

\* C19: the step in which the ZIP input does not appear throws at once,
\* without waiting again; from then on nothing is navigated or typed, no
\* category walk starts, and when runScraper has ended it threw and the
\* browser was closed.
C19_LocationControlMissing ==
    /\ [][(pc = "zip" /\ faults' = faults + 1)
             => caught' \in {ZipTimeout, ZipMissing} /\ pc' = "finally"]_vars
    /\ [][caught = ZipTimeout
             => /\ loc' = loc
                /\ zipEntered' = zipEntered
                /\ pc' \in {"finally", "done"}]_vars
    /\ [](caught = ZipTimeout =>
             /\ pc \in {"finally", "done"}
             /\ guestClicked
             /\ ~zipEntered
             /\ NothingWalked
             /\ ThrewAndReleased)

\* C19 witness: the ZIP input never appeared and runScraper ended by
\* throwing the timeout, the browser closed.
C19_Witness ==
    /\ pc = "done"
    /\ caught = ZipTimeout
    /\ thrown = ZipTimeout
    /\ closes = 1
    /\ ~zipEntered

\* every failure retry() has seen so far is one shouldRetryError accepts
OnlyTransientFailures ==
    \A i \in 1..Len(opLog) : ~opLog[i].ok => shouldRetryError(opLog[i].err)

\* C20: a navigation that failed with transient errors only does not fail
\* its step while attempts are left: the home navigation and the detail
\* navigation throw only after maxRetries + 1 attempts or a failure that is
\* not transient, and a single rejected navigation fails neither the page
\* advance nor the return to the category list.
C20_NavigationsRetried ==
    /\ [](pc \in {"auth_goto", "extract"} /\ rpc = "threw"
             /\ OnlyTransientFailures
          => calls = ropts.maxRetries + 1)
    /\ [][(pc = "return" /\ faults' = faults + 1)
             => pc' # "category_threw"]_vars
    /\ [][(pc = "advance" /\ faults' = faults + 1)
             => pc' # "category_threw"]_vars


\* C21: the store connection is opened on first use, reused while open, and
\* closed by the end of the command. For the scrape command the last part
\* says: when runScraper has finished, the connection is not open any more.
\* runScraper's finally (lines 621-625) closes the browser only, and main
\* (index.js lines 10-20) calls nothing after runScraper.
C21_StoreClosedAtCommandEnd == (pc = "done") => (db = "null")


\* C22: the k-th sleep of retry, performed after the failure of attempt k
\* when another attempt follows, lasts baseDelay * 2^(k-1) with exponential
\* backoff and exactly baseDelay without it; with backoff every sleep is
\* twice the one before it.
C22_BackoffDelays ==
    /\ Len(sleeps) = attempt - 1
    /\ \A k \in 1..Len(sleeps) :
         /\ ropts.exponentialBackoff
               => sleeps[k] = ropts.baseDelay * (2 ^ (k - 1))
         /\ ~ropts.exponentialBackoff => sleeps[k] = ropts.baseDelay
         /\ (ropts.exponentialBackoff /\ k > 1)
               => sleeps[k] = 2 * sleeps[k - 1]

\* C22 witness: three sleeps with backoff from a base of 1000 ms.
C22_Witness ==
    /\ ropts.exponentialBackoff
    /\ ropts.baseDelay = 1000
    /\ sleeps = <<1000, 2000, 4000>>
    /\ \A i \in 1..3 : AcceptedFailure(i)


\* the records of category c in the list scrapeAllCategories accumulates
RunRecordsOf(c) == {k \in 1..Len(allProducts) : allProducts[k].sku[1] = c}

\* the export called after the walk of category c failed
ExportFailedFor(c) == \E k \in ExportsOf(c) : ~exports[k].ok

\* C23: when the export after a category failed, the traversal has gone on:
\* the category counts as returned, its records are in the accumulated list
\* of the run, and if a category follows it, that one is being walked or
\* was walked before the run reached its summary.
C23_ExportFailureAbsorbed ==
    \A c \in 1..NumCategories :
        ExportFailedFor(c) =>
            /\ catLog[c].status = "returned"
            /\ catLog[c].n > 0
            /\ Cardinality(RunRecordsOf(c)) = catLog[c].n
            /\ caught = NoError
            /\ catIdx > c
            /\ c < NumCategories =>
                 \/ Walked(c + 1)
                 \/ catIdx = c + 1 /\ pc \notin {"summary", "finally", "done"}

\* C23 witness: the export after category 1 failed, category 2 was walked
\* and returned records, and the run ended with the records of both.
C23_Witness ==
    /\ ExportFailedFor(1)
    /\ catLog[2].status = "returned"
    /\ catLog[2].n > 0
    /\ RunRecordsOf(1) # {}
    /\ RunRecordsOf(2) # {}
    /\ pc = "done"


\* the records of the first n links of the page for which the log says the
\* extraction yielded one, in link order
RECURSIVE RecordsOfSucceeded(_)
RecordsOfSucceeded(n) ==
    IF n = 0 THEN <<>>
    ELSE LET link == productLinks[n] IN
         IF linkLog[n]
         THEN Append(RecordsOfSucceeded(n - 1),
                     RecordOf(link.cat, link.page, link.idx))
         ELSE RecordsOfSucceeded(n - 1)

\* C24: while a page is scraped, every link before the loop's position has
\* been attempted, and the page's list is exactly the records of those that
\* succeeded, in link order; the loop is left only when no link remains or
\* the list has reached the product limit.
C24_FailedLinkSkipped ==
    pc \in {"link", "extract", "save", "page_done"} =>
        /\ Len(linkLog) = li
        /\ li <= Len(productLinks)
        /\ categoryProducts = RecordsOfSucceeded(li)
        /\ pc \in {"save", "page_done"} =>
             \/ li = Len(productLinks)
             \/ Len(categoryProducts) >= maxProductsPerCategory

\* C24 witness: the first link of a page failed after its retries, the
\* second was extracted, and the page's list holds that record alone.
C24_Witness ==
    /\ pc = "page_done"
    /\ Len(productLinks) = 2
    /\ linkLog = <<FALSE, TRUE>>
    /\ Len(categoryProducts) = 1
    /\ categoryProducts[1].sku[3] = 2


\* C25: a step of scrapeCategory on a category that has no configured
\* selector returns at once: the page shown, the store and the counters of
\* pages and advances are as before, no failure is met and nothing is
\* thrown; once such a category was walked it counts as returned with no
\* record, nothing was saved or exported for it, and the category after it
\* is being walked or was walked.
C25_UnknownCategory ==
    /\ [][(pc = "category" /\ catIdx \notin categorySelectors) =>
            /\ pc' = "category_returned"
            /\ loc' = loc
            /\ faults' = faults
            /\ pagesExtracted' = 0
            /\ advances' = 0
            /\ allCategoryProducts' = <<>>
            /\ UNCHANGED <<storeVars, allProducts, saveLog, caught>>]_vars
    /\ [](\A c \in 1..NumCategories :
            (Walked(c) /\ c \notin categorySelectors) =>
                /\ catLog[c] = [status |-> "returned", n |-> 0,
                                exported |-> FALSE, faults |-> 0]
                /\ RunRecordsOf(c) = {}
                /\ ExportsOf(c) = {}
                /\ \A k \in 1..Len(saveLog) : saveLog[k].cat # c
                /\ c < NumCategories =>
                     \/ Walked(c + 1)
                     \/ /\ catIdx = c + 1
                        /\ pc \notin {"summary", "finally", "done"})

\* C25 witness: category 1 has no selector, its walk returned nothing, and
\* category 2 was walked after it and yielded records.
C25_Witness ==
    /\ 1 \notin categorySelectors
    /\ catLog[1].status = "returned"
    /\ catLog[2].status = "returned"
    /\ catLog[2].n > 0
    /\ RunRecordsOf(2) # {}


\* C26: a return to the category list that ends with no category marker
\* visible after the scroll re-check has attempted the forced reload of the
\* list once.
C26_ReloadWhenNoMarkers ==
    [][(pc = "return" /\ loc' = DiscoverBare) =>
          refreshes' = refreshes + 1]_vars


\* the concatenation of the lists of a sequence of lists, in order
RECURSIVE Flatten(_)
Flatten(lists) ==
    IF lists = <<>> THEN <<>>
    ELSE Flatten(SubSeq(lists, 1, Len(lists) - 1)) \o lists[Len(lists)]

\* C27: when scrapeCategory returns normally, the list it returns is the
\* concatenation, in page order, of the lists that its calls of
\* scrapeProductsFromPage returned, one list per call; and that list is
\* what the run's accumulated list grows by.
C27_CategoryResult ==
    /\ pc \in {"return", "category_returned"} =>
         /\ Len(pageResults) = pagesExtracted
         /\ allCategoryProducts = Flatten(pageResults)
    /\ \A c \in 1..NumCategories :
         catLog[c].status = "returned" =>
             Cardinality(RunRecordsOf(c)) = catLog[c].n

\* C27 witness: a category returned after two pages, the first with one
\* record because a product of it failed, the second with two.
C27_Witness ==
    /\ pc = "category_returned"
    /\ Len(pageResults) = 2
    /\ Len(pageResults[1]) = 1
    /\ Len(pageResults[2]) = 2
    /\ Len(allCategoryProducts) = 3


(***************************************************************************)
(* Claims about the pagination controls, checked under SpecPaginate.       *)
(***************************************************************************)
\* numbered button n is the one the current page number is read from: the
\* first in document order that is active or disabled
MarksCurrentPage(n) ==
    /\ pagination.pages[n] \in {"active", "disabled"}
    /\ \A m \in 1..(n - 1) : pagination.pages[m] \notin {"active", "disabled"}

\* numbered button n is the control for the page after the current one
\* (page 1 when no button marks the current page)
IsNextNumbered(n) ==
    \/ n > 1 /\ MarksCurrentPage(n - 1)
    \/ n = 2 /\ \A m \in 1..MaxPageButtons : ~MarksCurrentPage(m)

\* C28: once the controls were examined, navigateToNextPage returns true
\* exactly when a control was clicked. An enabled next button is clicked
\* and gives true; a disabled next button gives false with the reason
\* button-disabled and no click, whatever the numbered buttons; without a
\* next button, true is returned exactly when the numbered button for the
\* page after the current one exists, is not disabled and was clicked.
C28_NextPageResult ==
    nextPageClicked # NotEvaluated =>
        LET returned == NavigateReturn(nextPageClicked) IN
        /\ returned <=> nextPageClicked.clicked # "none"
        /\ pagination.next \in {"enabled", "throws"} =>
             returned /\ nextPageClicked.clicked = "next"
        /\ pagination.next = "disabled" =>
             /\ ~returned
             /\ nextPageClicked.clicked = "none"
             /\ nextPageClicked.reason = "button-disabled"
        /\ pagination.next = "absent" =>
             /\ returned <=>
                  \E n \in 1..MaxPageButtons :
                      /\ IsNextNumbered(n)
                      /\ pagination.pages[n] \in {"enabled", "active"}
             /\ returned =>
                  /\ nextPageClicked.clicked = "page"
                  /\ IsNextNumbered(nextPageClicked.page)

\* C28 witness: a disabled next button beside an enabled button for page 2
\* gave false.
C28_Witness ==
    /\ nextPageClicked # NotEvaluated
    /\ pagination.next = "disabled"
    /\ pagination.pages[1] = "active"
    /\ pagination.pages[2] = "enabled"
    /\ ~NavigateReturn(nextPageClicked)


\* C29: in the record extractProductDetails returned from a detail page
\* without the location marker, location_zip is the configured location
\* ZIP, syscoConfig.scraping.location.zipCode.
C29_LocationZipDefault ==
    (rpc = "returned" /\ ~document["location_zip"].present) =>
        rresult.val.location_zip = <<zipCode>>


\* C30: the k-th advance of a category walk goes first to the k-th value
\* categoryPageUrl was given: the URL recorded after the category click for
\* the first advance, the URL recorded after the (k-1)-th successful
\* advance for the k-th; that is the locator of the page just extracted.
\* categoryPageUrl holds the latest of these values and gets a new one by a
\* successful advance only.
C30_RenavigateBeforeAdvance ==
    /\ [](pc \in {"page", "link", "extract", "save", "page_done", "advance",
                  "return"} =>
            /\ Len(navLog) = advances
            /\ Len(urlLog) = currentPage
            /\ categoryPageUrl = urlLog[currentPage]
            /\ Len(navLog) <= Len(urlLog)
            /\ \A k \in 1..Len(navLog) : navLog[k] = urlLog[k]
            /\ \A k \in 2..Len(urlLog) : urlLog[k] = Listing(catIdx, k)
            /\ pc = "advance" => pagesExtracted = currentPage)
    /\ [][(pc # "category" /\ categoryPageUrl' # categoryPageUrl) =>
            /\ pc = "advance"
            /\ pc' = "page"
            /\ currentPage' = currentPage + 1
            /\ categoryPageUrl' = loc']_vars

\* C30 witness: a second advance was made, to the listing of page 2 that
\* was recorded after the first advance.
C30_Witness ==
    /\ Len(navLog) = 2
    /\ urlLog[1] = Listing(catIdx, 1)
    /\ navLog[1] = Listing(catIdx, 1)
    /\ navLog[2] = Listing(catIdx, 2)


\* C31: whenever scrapeCategory starts for a category of a traversal that
\* began on the category list, the browser is on the category-list page
\* (with or without its markers rendered), whatever the outcome of the
\* earlier categories was.
C31_OnCategoryListAtStart ==
    (pc = "category" /\ listAtStart) => loc \in {Discover, DiscoverBare}


\* the records handed to batchUpsertProducts during the walk of category c
\* are rows of the table
SavedStays(c) ==
    \A k \in 1..Len(saveLog) :
        saveLog[k].cat = c => AllStored(saveLog[k].records)

\* C32: once the walk of a category has thrown, the records of its pages
\* that were handed to the store are still rows of the table, none of its
\* records is in the list the run accumulates, and exportToCsv was not
\* called for it.
C32_ThrownCategoryPartial ==
    \A c \in 1..NumCategories :
        catLog[c].status = "threw" =>
            /\ SavedStays(c)
            /\ RunRecordsOf(c) = {}
            /\ ExportsOf(c) = {}
            /\ catLog[c].n = 0

\* C32 witness: category 1 stored its first page, then both navigations of
\* the return to the category list failed and its walk threw; the run went on
\* to category 2 with an empty accumulated list and no export.
C32_Witness ==
    /\ catLog[1].status = "threw"
    /\ catIdx = 2
    /\ SavesOf(1, 1) # {}
    /\ \E k \in SavesOf(1, 1) : AllStored(saveLog[k].records)
    /\ refreshes = 1
    /\ allProducts = <<>>
    /\ exports = <<>>


\* every record of the list has a sku that is not empty
HasSku(records) ==
    \A k \in 1..Len(records) : records[k].sku # EmptySku

\* C33: every record handed to batchUpsertProducts, and every record of the
\* lists scrapeProductsFromPage, scrapeCategory and scrapeAllCategories
\* build and return, has a sku that is not empty.
C33_RecordsHaveSku ==
    /\ \A k \in 1..Len(saveLog) : HasSku(saveLog[k].records)
    /\ pc = "save" => HasSku(productsArray)
    /\ HasSku(categoryProducts)
    /\ \A k \in 1..Len(pageResults) : HasSku(pageResults[k])
    /\ HasSku(allCategoryProducts)
    /\ HasSku(allProducts)

\* C33 witness: category 1 was saved, returned and accumulated; on a page of
\* category 2 the first link gave a record and the detail page of the second
\* showed no sku on any attempt, so that its extraction threw.
C33_Witness ==
    /\ catIdx = 2
    /\ allProducts # <<>>
    /\ SavesOf(1, 1) # {}
    /\ pc = "extract"
    /\ rpc = "threw"
    /\ \A i \in 1..calls : ReadNoSku(i)
    /\ Len(categoryProducts) = 1


(***************************************************************************)
(* A further claim about batchUpsertProducts, checked under SpecBatch.     *)
(***************************************************************************)
\* C34: the counters of batchUpsertProducts are never negative; when it
\* returns from an array, saved + errors is the number of its records; and
\* for an empty array or a value that is not an array it returns at once
\* with saved = 0 and errors = 0, the store not connected, no statement run,
\* the table as it was.
C34_BatchCounts ==
    /\ saved >= 0
    /\ errors >= 0
    /\ (bpc = "returned" /\ isArray) => saved + errors = Len(productsArray)
    /\ (~isArray \/ Len(productsArray) = 0) =>
         /\ bpc = "returned"
         /\ saved = 0
         /\ errors = 0
         /\ bi = 0
         /\ db = "null"
         /\ table \in SeedTables
         /\ now = 0

\* C34 witness: an array of three records returned with one saved and two
\* rejected.
C34_Witness ==
    /\ bpc = "returned"
    /\ isArray
    /\ Len(productsArray) = 3
    /\ saved = 1
    /\ errors = 2
    /\ db = "open"


(***************************************************************************)
(* A further claim about retry(), checked under SpecRetry.                 *)
(***************************************************************************)
\* C35: when retry has ended, by returning or by throwing, it slept once
\* less than it invoked the operation; while it runs, every sleep so far was
\* followed or is about to be followed by another invocation; and no sleep
\* followed a success, a failure the retry condition refuses, or attempt
\* maxRetries + 1.
C35_SleepsBetweenAttempts ==
    /\ rpc \in {"returned", "threw"} =>
         /\ calls >= 1
         /\ Len(sleeps) = calls - 1
    /\ rpc = "loop" =>
         /\ Len(sleeps) = calls
         /\ calls < ropts.maxRetries + 1
    /\ \A i \in 1..Len(opLog) :
         (opLog[i].ok \/ RefusedFailure(i) \/ i = ropts.maxRetries + 1)
            => Len(sleeps) < i

\* C35 witness: retry with maxRetries = 2 was exhausted by three accepted
\* failures, after two sleeps.
C35_Witness ==
    /\ rpc = "threw"
    /\ ropts.maxRetries = 2
    /\ calls = 3
    /\ \A i \in 1..3 : AcceptedFailure(i)
    /\ Len(sleeps) = 2


(***************************************************************************)
(* A further claim about the location step of a run, checked under Spec.   *)
(***************************************************************************)
\* the positions of the buttons whose text names a submit button
SubmitButtons ==
    {k \in 1..Len(modalButtons) : IsSubmitText(modalButtons[k])}

\* C36: when handleZipCodeModal has typed the ZIP code and returned, it
\* returned without an error whether or not a button named a submit button;
\* it clicked nothing when none did, and exactly one button, the first of
\* them in DOM order, when one or several did; and a run whose ZIP code was
\* typed ends only after every category was walked.
C36_SubmitButtonOptional ==
    /\ pc = "located" =>
         /\ zipEntered
         /\ caught = NoError
         /\ SubmitButtons = {} => modalClicks = <<>>
         /\ SubmitButtons # {} =>
              /\ Len(modalClicks) = 1
              /\ modalClicks[1] \in SubmitButtons
              /\ \A k \in SubmitButtons : modalClicks[1] <= k
    /\ (zipEntered /\ pc \in {"summary", "finally", "done"}) =>
         \A c \in 1..NumCategories : Walked(c)

\* C36 witness: the modal's document had two buttons naming a submit
\* button; the step clicked the first only and returned.
C36_Witness ==
    /\ pc = "located"
    /\ Cardinality(SubmitButtons) = 2
    /\ modalClicks = <<1>>
    /\ caught = NoError

\* C36, the other case: no button named a submit button, the step returned
\* all the same and the run went on to walk every category.
C36_NoButtonTraversed ==
    /\ pc = "done"
    /\ zipEntered
    /\ ~listAtStart
    /\ \A c \in 1..NumCategories : Walked(c)

====
